---- MODULE Spec2Model ----
(***************************************************************************)
(* Verification model of the blitz execution engine (backend/services.py): *)
(* the Agent Runner (AgentService), the tool-call parser, and the          *)
(* Execution Coordinator (ExecutionService) with its worker pool.          *)
(*                                                                         *)
(* Conventions                                                             *)
(*  - A Python str is a sequence of tokens (TLA+ strings).  The markers    *)
(*    "FINAL_ANSWER:" and "TOOL_CALL:" and the punctuation "(" ")" "," "=" *)
(*    are tokens of their own; " " is the whitespace token.                *)
(*  - A Python dict is a function; a key the code reads with .get(k, d) is *)
(*    read with Get(d, k, default), so absent keys stay absent.            *)
(*  - None is the reserved text NoneText (for outputs) or the reserved     *)
(*    string "None" (for error messages).                                  *)
(*  - Money is counted in millionths of the currency unit; round(x, 5) is  *)
(*    Round5.  Durations and timestamps other than "is set" are left out.  *)
(***************************************************************************)
EXTENDS Integers, Sequences, FiniteSets, TLC

(* ------------------------------------------------------------------ *)
(* Bounds of the explored inputs                                        *)
(* ------------------------------------------------------------------ *)

\* Largest max_iterations an agent of the explored agent table configures.
MaxIterations == 2

(* ------------------------------------------------------------------ *)
(* Program constants                                                    *)
(* ------------------------------------------------------------------ *)

\* agent.parameters.get('max_iterations', 5)
DefaultMaxIterations == 5

\* The mock backend's fixed usage: 'total_tokens': 75
MockTotalTokens == 75

(* ------------------------------------------------------------------ *)
(* Python values                                                        *)
(* ------------------------------------------------------------------ *)

EmptyDict == [k \in {} |-> 0]

NoneText == <<"<None>">>

Get(d, k, default) == IF k \in DOMAIN d THEN d[k] ELSE default

\* round(x, 5) on an amount in millionths: to the nearest multiple of 10.
Round5(x) == ((x + 5) \div 10) * 10

(* ------------------------------------------------------------------ *)
(* str operations on token sequences                                    *)
(* ------------------------------------------------------------------ *)

Whitespace == {" ", "\n"}

Contains(s, tok) == \E i \in 1..Len(s) : s[i] = tok

\* Index of the first (last) occurrence of tok in s; 0 when there is none.
FirstIndex(s, tok) ==
    IF Contains(s, tok)
    THEN CHOOSE i \in 1..Len(s) : s[i] = tok /\ \A j \in 1..(i - 1) : s[j] # tok
    ELSE 0

LastIndex(s, tok) ==
    IF Contains(s, tok)
    THEN CHOOSE i \in 1..Len(s) : s[i] = tok /\ \A j \in (i + 1)..Len(s) : s[j] # tok
    ELSE 0

\* s.split(tok)[0]: the text before the first tok, all of s when there is none.
BeforeFirst(s, tok) ==
    IF Contains(s, tok) THEN SubSeq(s, 1, FirstIndex(s, tok) - 1) ELSE s

\* s.split(tok, 1)[1]: the text after the first tok (callers check tok is in s).
AfterFirst(s, tok) == SubSeq(s, FirstIndex(s, tok) + 1, Len(s))

\* s.rsplit(tok, 1)[0]: the text before the last tok, all of s when there is none.
BeforeLast(s, tok) ==
    IF Contains(s, tok) THEN SubSeq(s, 1, LastIndex(s, tok) - 1) ELSE s

\* s.strip(chars): leading and trailing tokens of the set removed.
RECURSIVE LStrip(_, _)
LStrip(s, chars) ==
    IF s # <<>> /\ Head(s) \in chars THEN LStrip(Tail(s), chars) ELSE s

RECURSIVE RStrip(_, _)
RStrip(s, chars) ==
    IF s # <<>> /\ s[Len(s)] \in chars
    THEN RStrip(SubSeq(s, 1, Len(s) - 1), chars)
    ELSE s

StripChars(s, chars) == RStrip(LStrip(s, chars), chars)

Strip(s) == StripChars(s, Whitespace)

\* s.split(tok): the pieces between the occurrences of tok.
RECURSIVE Split(_, _)
Split(s, tok) ==
    IF Contains(s, tok)
    THEN <<BeforeFirst(s, tok)>> \o Split(AfterFirst(s, tok), tok)
    ELSE <<s>>

\* "\n".join(parts)
RECURSIVE Join(_)
Join(parts) ==
    IF parts = <<>> THEN <<>>
    ELSE IF Len(parts) = 1 THEN parts[1]
    ELSE parts[1] \o <<"\n">> \o Join(Tail(parts))

\* json.dumps(value, indent=2): a rendering that encloses the value's text.
JsonDumps(value) == <<"json<">> \o value \o <<">">>

(* ------------------------------------------------------------------ *)
(* Reference data read by the runners (rows of models, prompts, tools, *)
(* agents)                                                              *)
(* ------------------------------------------------------------------ *)

\* cost_per_token in millionths per token (0.000002 and 0.0 in the seed data).
ModelTable ==
    (1 :> [id |-> 1, provider |-> "azure_openai", cost_per_token |-> 2]) @@
    (2 :> [id |-> 2, provider |-> "azure_openai", cost_per_token |-> 0]) @@
    (3 :> [id |-> 3, provider |-> "other", cost_per_token |-> 2])

\* A template is a sequence of literal texts and {placeholders}.
PromptTable ==
    (1 :> [id |-> 1, template |-> <<[lit |-> <<"Analyze:", " ">>], [key |-> "text"]>>])

BuiltinToolNames == {<<"web_search">>, <<"file_write">>, <<"file_read">>, <<"calculator">>}

SearchTool == [name |-> <<"web_search">>, tool_type |-> "builtin", implementation |-> <<>>]
CalcTool == [name |-> <<"calculator">>, tool_type |-> "builtin", implementation |-> <<>>]
GhostTool == [name |-> <<"ghost">>, tool_type |-> "builtin", implementation |-> <<>>]
CustomTool == [name |-> <<"custom">>, tool_type |-> "custom", implementation |-> <<"result = 1">>]
EmptyCustomTool == [name |-> <<"blank">>, tool_type |-> "custom", implementation |-> <<>>]
PluginTool == [name |-> <<"plugin">>, tool_type |-> "plugin", implementation |-> <<>>]

AllTools == <<SearchTool, CalcTool, GhostTool, CustomTool, EmptyCustomTool, PluginTool>>

\* Agent 1 has no tools; agent 2 has tools and no max_iterations parameter;
\* agent 3 + n has tools and max_iterations = n; agents 10..12 are broken
\* (unknown model, unknown prompt, unsupported provider); agent 13 is free.
AgentTable ==
    (1 :> [id |-> 1, model_id |-> 1, prompt_id |-> 1, tools |-> <<>>,
           parameters |-> EmptyDict]) @@
    (2 :> [id |-> 2, model_id |-> 1, prompt_id |-> 1, tools |-> <<SearchTool>>,
           parameters |-> EmptyDict]) @@
    [i \in 3..(3 + MaxIterations) |->
          [id |-> i, model_id |-> 1, prompt_id |-> 1, tools |-> AllTools,
           parameters |-> [max_iterations |-> i - 3]]] @@
    (10 :> [id |-> 10, model_id |-> 9, prompt_id |-> 1, tools |-> <<>>,
            parameters |-> EmptyDict]) @@
    (11 :> [id |-> 11, model_id |-> 1, prompt_id |-> 9, tools |-> <<SearchTool>>,
            parameters |-> EmptyDict]) @@
    (12 :> [id |-> 12, model_id |-> 3, prompt_id |-> 1, tools |-> <<>>,
            parameters |-> EmptyDict]) @@
    (13 :> [id |-> 13, model_id |-> 2, prompt_id |-> 1, tools |-> <<>>,
            parameters |-> EmptyDict])

\* input_data payloads (key -> text): one that fills the template, one that
\* does not.
GoodInput == [text |-> <<"doc">>]
InputPayloads == {GoodInput, EmptyDict}

(* ------------------------------------------------------------------ *)
(* What the environment answers: the LLM backend and the tool bodies   *)
(* ------------------------------------------------------------------ *)

PlainResponse == <<"thinking">>
FinalResponse == <<"so", "FINAL_ANSWER:", " ", "42", " ", "\n">>
FinalAndToolResponse == <<"TOOL_CALL:", "web_search", "(", ")", "FINAL_ANSWER:", "done", "FINAL_ANSWER:", "x">>
SearchCallResponse ==
    <<"TOOL_CALL:", " ", "web_search", "(", "query", "=", "cats", ",", " ",
      "max_results", "=", "3", ")">>
UnknownToolResponse == <<"TOOL_CALL:", "nope", "(", ")">>
PluginCallResponse == <<"TOOL_CALL:", "plugin", "(", ")">>

Responses ==
    {PlainResponse, FinalResponse, FinalAndToolResponse, SearchCallResponse,
     UnknownToolResponse, PluginCallResponse}

TokenCounts == {13, 75}

\* An answer of the provider client: it raises, or returns content and usage.
BackendAnswers ==
    {[raises |-> TRUE, error |-> "backend unreachable"]} \cup
    {[raises |-> FALSE, content |-> r, total_tokens |-> t] :
        r \in Responses, t \in TokenCounts}

\* What the body of a tool does when it is run: it raises, or returns a value.
ToolBodies ==
    {[raises |-> TRUE, error |-> "tool raised"],
     [raises |-> FALSE, output |-> <<"value">>]}

(* ------------------------------------------------------------------ *)
(* LLM Gateway: LLMService.call_llm                                     *)
(* ------------------------------------------------------------------ *)

MockResponse == <<"Mock response for prompt">>

LlmFailure(message) ==
    [success |-> FALSE, response |-> <<>>, error |-> message,
     total_tokens |-> 0, cost |-> 0]

\* client: whether a provider client is configured (otherwise mock mode);
\* answer: what the provider client does when it is called.
_call_azure_openai(model, client, answer) ==
    IF ~client
    THEN [success |-> TRUE, response |-> MockResponse, error |-> "None",
          total_tokens |-> MockTotalTokens,
          cost |-> Round5(MockTotalTokens * model.cost_per_token)]
    ELSE IF answer.raises
    THEN LlmFailure(answer.error)
    ELSE [success |-> TRUE, response |-> answer.content, error |-> "None",
          total_tokens |-> answer.total_tokens,
          cost |-> Round5(answer.total_tokens * model.cost_per_token)]

call_llm(model, client, answer) ==
    IF model.provider = "azure_openai"
    THEN _call_azure_openai(model, client, answer)
    ELSE LlmFailure("Unsupported provider")

(* ------------------------------------------------------------------ *)
(* Tool Executor: ToolService.execute_tool                             *)
(* ------------------------------------------------------------------ *)

ToolFailure(message) == [success |-> FALSE, output |-> NoneText, error |-> message]

ToolSuccess(output) == [success |-> TRUE, output |-> output, error |-> "None"]

\* body: what the tool's implementation does on these parameters.
execute_tool(tool, parameters, body) ==
    IF tool.tool_type = "builtin"
    THEN IF tool.name \in BuiltinToolNames
         THEN IF body.raises THEN ToolFailure(body.error) ELSE ToolSuccess(body.output)
         ELSE ToolFailure("Unknown builtin tool")
    ELSE IF tool.tool_type = "custom"
    THEN IF tool.implementation = <<>>
         THEN ToolFailure("No implementation provided for custom tool")
         ELSE IF body.raises THEN ToolFailure(body.error) ELSE ToolSuccess(body.output)
    ELSE ToolFailure("Unsupported tool type")

(* ------------------------------------------------------------------ *)
(* Agent Runner: AgentService                                           *)
(* ------------------------------------------------------------------ *)

\* The params dict built from "k1=v1, k2=v2": pieces without "=" are skipped,
\* a later key overwrites an earlier one.
RECURSIVE ParamsOf(_, _)
ParamsOf(pieces, params) ==
    IF pieces = <<>> THEN params
    ELSE LET param == Head(pieces)
             key == Strip(BeforeFirst(param, "="))
             value == StripChars(Strip(AfterFirst(param, "=")), {"\"", "'"})
         IN ParamsOf(Tail(pieces),
                     IF Contains(param, "=")
                     THEN [k \in DOMAIN params \cup {key} |->
                              IF k = key THEN value ELSE params[k]]
                     ELSE params)

ParseToolParams(tool_call) ==
    IF Contains(tool_call, "(") /\ Contains(tool_call, ")")
    THEN LET params_str == BeforeLast(AfterFirst(tool_call, "("), ")")
         IN IF Strip(params_str) # <<>>
            THEN ParamsOf(Split(params_str, ","), EmptyDict)
            ELSE EmptyDict
    ELSE EmptyDict

\* Variant: the text before "(" is taken as it stands.
ParseToolName_unstripped(tool_call) == BeforeFirst(tool_call, "(")

ParseToolName(tool_call) == Strip(BeforeFirst(tool_call, "("))

_execute_tool_call(agent, tool_call, body) ==
    LET tool_name == ParseToolName(tool_call)
        found == {i \in 1..Len(agent.tools) : agent.tools[i].name = tool_name}
    IN IF found = {}
       THEN ToolFailure("Tool not found")
       ELSE LET first == CHOOSE i \in found : \A j \in found : i <= j
            IN execute_tool(agent.tools[first], ParseToolParams(tool_call), body)

\* template.format(**input_data) once every placeholder has a value.
RECURSIVE Render(_, _)
Render(template, input_data) ==
    IF template = <<>> THEN <<>>
    ELSE (IF "key" \in DOMAIN Head(template)
          THEN input_data[Head(template).key]
          ELSE Head(template).lit) \o Render(Tail(template), input_data)

_fill_prompt_template(template, input_data) ==
    IF \E i \in 1..Len(template) :
          "key" \in DOMAIN template[i] /\ template[i].key \notin DOMAIN input_data
    THEN [raised |-> TRUE, error |-> "Missing required input parameter"]
    ELSE [raised |-> FALSE, value |-> Render(template, input_data)]

\* The result execute_agent returns from its except branch.
AgentFailure(message) ==
    [success |-> FALSE, output |-> NoneText, error |-> message, steps |-> <<>>]

\* Variant: a failed call leaves no step behind.
_execute_simple_agent_drops_failed(llm_result) ==
    [success |-> llm_result.success,
     output |-> IF llm_result.success THEN llm_result.response ELSE NoneText,
     error |-> llm_result.error,
     steps |-> IF llm_result.success
               THEN <<[type |-> "llm_call", success |-> llm_result.success,
                       tokens |-> llm_result.total_tokens, cost |-> llm_result.cost]>>
               ELSE <<>>,
     total_tokens |-> llm_result.total_tokens,
     total_cost |-> llm_result.cost]

_execute_simple_agent(llm_result) ==
    [success |-> llm_result.success,
     output |-> IF llm_result.success THEN llm_result.response ELSE NoneText,
     error |-> llm_result.error,
     steps |-> <<[type |-> "llm_call", success |-> llm_result.success,
                  tokens |-> llm_result.total_tokens, cost |-> llm_result.cost]>>,
     total_tokens |-> llm_result.total_tokens,
     total_cost |-> llm_result.cost]

max_iterations_of(agent) == Get(agent.parameters, "max_iterations", DefaultMaxIterations)

ToolDescriptions(agent) ==
    [i \in 1..Len(agent.tools) |-> agent.tools[i].name]

\* The locals of _execute_agent_with_tools before the loop.  ctl is where the
\* run stands: "loop" (at the head of the for loop), "tool" (the response of
\* this iteration asks for tool_call), "break", "return".
ReactEnter(agent, prompt) ==
    [iteration |-> 0,
     conversation_history |->
         <<<<"User:">> \o prompt \o <<"tools:">> \o Join(ToolDescriptions(agent))>>,
     steps |-> <<>>,
     total_tokens |-> 0,
     total_cost |-> 0,
     ctl |-> "loop",
     tool_call |-> <<>>,
     result |-> EmptyDict]

AppendLlmStep(steps, iteration, llm_result) ==
    Append(steps, [type |-> "llm_call", iteration |-> iteration + 1,
                   success |-> llm_result.success,
                   tokens |-> llm_result.total_tokens,
                   cost |-> llm_result.cost])

\* Variant: the total is overwritten by the cost of the last call.
AccumulateCost_overwrites(total_cost, cost) == Round5(cost)

AccumulateCost(total_cost, cost) == Round5(total_cost + cost)

AccumulateTokens(total_tokens, tokens) == total_tokens + tokens

HasFinalAnswer(response) == Contains(response, "FINAL_ANSWER:")

HasToolCall(response) == Contains(response, "TOOL_CALL:")

FinalAnswerOf(response) == Strip(AfterFirst(response, "FINAL_ANSWER:"))

ToolCallOf(response) == Strip(AfterFirst(response, "TOOL_CALL:"))

\* Variant: the tool marker is looked for before the final-answer marker.
ResponseRoute_tool_first(response) ==
    IF HasToolCall(response) THEN "tool"
    ELSE IF HasFinalAnswer(response) THEN "return"
    ELSE "loop"

\* What the loop does with a response: "return", "tool" or "loop" (go on).
ResponseRoute(response) ==
    IF HasFinalAnswer(response) THEN "return"
    ELSE IF HasToolCall(response) THEN "tool"
    ELSE "loop"

\* The loop body of iteration index st.iteration from its LLM call up to the
\* tool call, given the result of the LLM call.
ReactLlmStep(agent, st, llm_result) ==
    LET steps1 == AppendLlmStep(st.steps, st.iteration, llm_result)
        tokens1 == AccumulateTokens(st.total_tokens, llm_result.total_tokens)
        cost1 == AccumulateCost(st.total_cost, llm_result.cost)
        response == llm_result.response
        history1 == Append(st.conversation_history, <<"Assistant:">> \o response)
        acc == [st EXCEPT !.steps = steps1, !.total_tokens = tokens1,
                          !.total_cost = cost1]
        route == ResponseRoute(response)
    IN IF ~llm_result.success
       THEN [acc EXCEPT !.ctl = "break"]
       ELSE IF route = "return"
       THEN [acc EXCEPT
               !.conversation_history = history1,
               !.ctl = "return",
               !.result = [success |-> TRUE,
                           output |-> FinalAnswerOf(response),
                           error |-> "None",
                           steps |-> steps1,
                           total_tokens |-> tokens1,
                           total_cost |-> cost1,
                           iterations |-> st.iteration + 1]]
       ELSE IF route = "tool"
       THEN [acc EXCEPT !.conversation_history = history1,
                        !.ctl = "tool",
                        !.tool_call = ToolCallOf(response)]
       ELSE [acc EXCEPT !.conversation_history = history1,
                        !.iteration = st.iteration + 1]

\* Variant: a failed tool call leaves the loop like a failed LLM call does.
ReactToolStep_breaks_on_failure(agent, st, body) ==
    LET tool_result == _execute_tool_call(agent, st.tool_call, body)
    IN [st EXCEPT
          !.iteration = st.iteration + 1,
          !.ctl = IF tool_result.success THEN "loop" ELSE "break",
          !.tool_call = <<>>,
          !.steps = Append(@, [type |-> "tool_call", tool_call |-> st.tool_call,
                               success |-> tool_result.success,
                               error |-> tool_result.error]),
          !.conversation_history =
              Append(@, IF tool_result.success
                        THEN <<"Tool Result:">> \o JsonDumps(tool_result.output)
                        ELSE <<"Tool Error:", tool_result.error>>)]

\* The rest of the loop body when the response asked for a tool, given what
\* the body of the tool does.
ReactToolStep(agent, st, body) ==
    LET tool_result == _execute_tool_call(agent, st.tool_call, body)
    IN [st EXCEPT
          !.iteration = st.iteration + 1,
          !.ctl = "loop",
          !.tool_call = <<>>,
          !.steps = Append(@, [type |-> "tool_call", tool_call |-> st.tool_call,
                               success |-> tool_result.success,
                               error |-> tool_result.error]),
          !.conversation_history =
              Append(@, IF tool_result.success
                        THEN <<"Tool Result:">> \o JsonDumps(tool_result.output)
                        ELSE <<"Tool Error:", tool_result.error>>)]

\* The return after the loop, reached when the range is exhausted or by break.
ReactExit(agent, st) ==
    [success |-> FALSE,
     output |-> NoneText,
     error |-> "Agent exceeded maximum iterations",
     steps |-> st.steps,
     total_tokens |-> st.total_tokens,
     total_cost |-> st.total_cost,
     iterations |-> max_iterations_of(agent)]

\* for iteration in range(max_iterations): the loop enters its body.
LoopContinues(agent, st) ==
    st.ctl = "loop" /\ st.iteration < max_iterations_of(agent)

\* The loop is left without a return: by break, or the range is exhausted.
LoopLeft(agent, st) ==
    st.ctl = "break" \/ (st.ctl = "loop" /\ ~(st.iteration < max_iterations_of(agent)))

\* What execute_agent does before it calls the LLM: "fail" with the result of
\* its except branch, or the runner to enter with the filled prompt.
AgentDispatch(agent, input_data) ==
    IF agent.model_id \notin DOMAIN ModelTable \/ agent.prompt_id \notin DOMAIN PromptTable
    THEN [to |-> "fail", result |-> AgentFailure("Agent model or prompt not found")]
    ELSE LET filled == _fill_prompt_template(PromptTable[agent.prompt_id].template, input_data)
         IN IF filled.raised
            THEN [to |-> "fail", result |-> AgentFailure(filled.error)]
            ELSE IF agent.tools # <<>>
            THEN [to |-> "tools", prompt |-> filled.value]
            ELSE [to |-> "simple", prompt |-> filled.value]

\* _execute_agent_with_tools run to its end on a script of answers, one
\* [llm, body] pair per iteration taken.
RECURSIVE ReactRun(_, _, _, _)
ReactRun(agent, st, client, script) ==
    IF st.ctl = "return" THEN st.result
    ELSE IF LoopContinues(agent, st) /\ script # <<>>
    THEN LET answered == ReactLlmStep(agent, st,
                            call_llm(ModelTable[agent.model_id], client, Head(script).llm))
         IN ReactRun(agent,
                     IF answered.ctl = "tool"
                     THEN ReactToolStep(agent, answered, Head(script).body)
                     ELSE answered,
                     client, Tail(script))
    ELSE ReactExit(agent, st)

\* AgentService.execute_agent on a script long enough for the run.
execute_agent(agent, input_data, client, script) ==
    LET d == AgentDispatch(agent, input_data)
    IN IF d.to = "fail" THEN d.result
       ELSE IF d.to = "simple"
       THEN _execute_simple_agent(call_llm(ModelTable[agent.model_id], client, Head(script).llm))
       ELSE ReactRun(agent, ReactEnter(agent, d.prompt), client, script)

(* ------------------------------------------------------------------ *)
(* Workflow Runner: WorkflowService                                     *)
(* ------------------------------------------------------------------ *)

\* A node output is a dict or a text; isinstance(x, dict) is IsDict.
Dict(f) == [dict |-> f]
Text(s) == [text |-> s]
IsDict(v) == "dict" \in DOMAIN v

Node(id, type, configuration) ==
    [node_id |-> id, node_type |-> type, configuration |-> configuration]

Conn(source, target) == [source_node_id |-> source, target_node_id |-> target]

\* f'{source_id}_output'
OutputKey ==
    ("s" :> "s_output") @@ ("a" :> "a_output") @@ ("b" :> "b_output") @@
    ("e" :> "e_output") @@ ("x" :> "x_output") @@ ("y" :> "y_output") @@
    ("s1" :> "s1_output") @@ ("s2" :> "s2_output") @@ ("i" :> "i_output")

\* Workflow 1: start -> end.  Workflow 2: start -> agent -> end.
\* Workflow 3 has no start node.  Workflow 4 is workflow 2 with an agent whose
\* model does not exist.  Workflow 5: start -> a node of no known type -> end.
\* Workflow 6 has the cycle x -> y -> x.  Workflow 7 has a self-loop on its
\* start node.  Workflow 8 has two start nodes that share a successor.
\* Workflow 9 has a cycle through an agent node.  In workflow 10 a node and
\* the end node cannot be reached from the start node.  Workflow 11 is the
\* diamond start -> a, start -> b, a -> end, b -> end of two input nodes.
\* In workflow 12 both predecessors of the end node run before it.
WorkflowTable ==
    (1 :> [id |-> 1,
           nodes |-> <<Node("s", "start", EmptyDict), Node("e", "end", EmptyDict)>>,
           connections |-> <<Conn("s", "e")>>]) @@
    (2 :> [id |-> 2,
           nodes |-> <<Node("s", "start", EmptyDict),
                       Node("a", "agent", [agent_id |-> 1]),
                       Node("e", "end", EmptyDict)>>,
           connections |-> <<Conn("s", "a"), Conn("a", "e")>>]) @@
    (3 :> [id |-> 3,
           nodes |-> <<Node("a", "agent", [agent_id |-> 1]), Node("e", "end", EmptyDict)>>,
           connections |-> <<Conn("a", "e")>>]) @@
    (4 :> [id |-> 4,
           nodes |-> <<Node("s", "start", EmptyDict),
                       Node("a", "agent", [agent_id |-> 10]),
                       Node("e", "end", EmptyDict)>>,
           connections |-> <<Conn("s", "a"), Conn("a", "e")>>]) @@
    (5 :> [id |-> 5,
           nodes |-> <<Node("s", "start", EmptyDict),
                       Node("x", "transform", EmptyDict),
                       Node("e", "end", EmptyDict)>>,
           connections |-> <<Conn("s", "x"), Conn("x", "e")>>]) @@
    (6 :> [id |-> 6,
           nodes |-> <<Node("s", "start", EmptyDict),
                       Node("x", "transform", EmptyDict),
                       Node("y", "transform", EmptyDict),
                       Node("e", "end", EmptyDict)>>,
           connections |-> <<Conn("s", "x"), Conn("x", "y"), Conn("y", "x"),
                             Conn("y", "e")>>]) @@
    (7 :> [id |-> 7,
           nodes |-> <<Node("s", "start", EmptyDict), Node("e", "end", EmptyDict)>>,
           connections |-> <<Conn("s", "s"), Conn("s", "e")>>]) @@
    (8 :> [id |-> 8,
           nodes |-> <<Node("s1", "start", EmptyDict),
                       Node("s2", "start", EmptyDict),
                       Node("x", "transform", EmptyDict),
                       Node("e", "end", EmptyDict)>>,
           connections |-> <<Conn("s1", "x"), Conn("s2", "x"), Conn("x", "e")>>]) @@
    (9 :> [id |-> 9,
           nodes |-> <<Node("s", "start", EmptyDict),
                       Node("a", "agent", [agent_id |-> 1]),
                       Node("e", "end", EmptyDict)>>,
           connections |-> <<Conn("s", "a"), Conn("a", "s"), Conn("a", "e")>>]) @@
    (10 :> [id |-> 10,
            nodes |-> <<Node("s", "start", EmptyDict),
                        Node("i", "input", [default_value |-> Dict([from_i |-> <<"I">>])]),
                        Node("y", "transform", EmptyDict),
                        Node("e", "end", EmptyDict)>>,
            connections |-> <<Conn("s", "i"), Conn("y", "e")>>]) @@
    (11 :> [id |-> 11,
            nodes |-> <<Node("s", "start", EmptyDict),
                        Node("a", "input", [default_value |-> Dict([from_a |-> <<"A">>])]),
                        Node("b", "input", [default_value |-> Dict([from_b |-> <<"B">>])]),
                        Node("e", "end", EmptyDict)>>,
            connections |-> <<Conn("s", "a"), Conn("s", "b"), Conn("a", "e"),
                              Conn("b", "e")>>]) @@
    (12 :> [id |-> 12,
            nodes |-> <<Node("s", "start", EmptyDict),
                        Node("a", "input", [default_value |-> Dict([from_a |-> <<"A">>])]),
                        Node("b", "input", [default_value |-> Dict([from_b |-> <<"B">>])]),
                        Node("e", "end", EmptyDict)>>,
            connections |-> <<Conn("s", "a"), Conn("a", "b"), Conn("a", "e"),
                              Conn("b", "e")>>])

NodeIds(wf) == {wf.nodes[i].node_id : i \in 1..Len(wf.nodes)}

NodeById(wf, id) ==
    wf.nodes[CHOOSE i \in 1..Len(wf.nodes) :
                wf.nodes[i].node_id = id
                /\ \A j \in (i + 1)..Len(wf.nodes) : wf.nodes[j].node_id # id]

\* The ids, in the order of wf.nodes, of the nodes of one type.
NodesOfType(wf, type) ==
    LET picked == SelectSeq(wf.nodes, LAMBDA n : n.node_type = type)
    IN [i \in 1..Len(picked) |-> picked[i].node_id]

\* Variant: the graph keeps only the first connection of each source.
_build_execution_graph_first_only(wf) ==
    [n \in NodeIds(wf) |->
        LET out == SelectSeq(wf.connections, LAMBDA c : c.source_node_id = n)
        IN IF out = <<>> THEN <<>> ELSE <<out[1].target_node_id>>]

\* graph[source] = the targets of its connections, in connection order; a
\* connection whose source is no node raises KeyError.
GraphRaises(wf) ==
    \E i \in 1..Len(wf.connections) : wf.connections[i].source_node_id \notin NodeIds(wf)

_build_execution_graph(wf) ==
    [n \in NodeIds(wf) |->
        LET out == SelectSeq(wf.connections, LAMBDA c : c.source_node_id = n)
        IN [i \in 1..Len(out) |-> out[i].target_node_id]]

\* node_outputs is an insertion-ordered dict: a sequence of [node_id, value].
HasOutput(node_outputs, id) ==
    \E i \in 1..Len(node_outputs) : node_outputs[i].node_id = id

OutputOf(node_outputs, id) ==
    node_outputs[CHOOSE i \in 1..Len(node_outputs) : node_outputs[i].node_id = id].value

SetOutput(node_outputs, id, value) ==
    Append(node_outputs, [node_id |-> id, value |-> value])

DictUpdate(d, e) == [k \in DOMAIN d \cup DOMAIN e |-> IF k \in DOMAIN e THEN e[k] ELSE d[k]]

\* The merge of the outputs of the predecessors that have one, taken in the
\* order of graph.items() (the order of wf.nodes).
RECURSIVE MergeInputs(_, _, _, _, _)
MergeInputs(node_id, sources, graph, node_outputs, input_data) ==
    IF sources = <<>> THEN input_data
    ELSE LET source_id == Head(sources).node_id
             targets == graph[source_id]
             feeds == (\E i \in 1..Len(targets) : targets[i] = node_id)
                      /\ HasOutput(node_outputs, source_id)
             source_output == OutputOf(node_outputs, source_id)
         IN MergeInputs(node_id, Tail(sources), graph, node_outputs,
                IF ~feeds THEN input_data
                ELSE IF IsDict(source_output)
                THEN DictUpdate(input_data, source_output.dict)
                ELSE DictUpdate(input_data, (OutputKey[source_id] :> source_output.text)))

\* Variant: the input is the output of the last predecessor that has one,
\* not the merge of all of them.
_get_node_input_last_only(node_id, wf, graph, node_outputs) ==
    LET feeding == SelectSeq(wf.nodes,
                      LAMBDA n : /\ \E i \in 1..Len(graph[n.node_id]) :
                                       graph[n.node_id][i] = node_id
                                 /\ HasOutput(node_outputs, n.node_id))
    IN  IF feeding = <<>> THEN EmptyDict
        ELSE MergeInputs(node_id, <<feeding[Len(feeding)]>>, graph, node_outputs,
                         EmptyDict)

\* _get_node_input: the merge, from an empty dict, over graph.items().
_get_node_input(node_id, wf, graph, node_outputs) ==
    MergeInputs(node_id, wf.nodes, graph, node_outputs, EmptyDict)

\* The closure state of _execute_workflow_graph; raised/error carry an
\* exception on its way up, agent_calls lists the execute_agent calls made,
\* entered the nodes whose try block was entered, in that order.
WorkflowEnter ==
    [executed_nodes |-> {}, node_outputs |-> <<>>, steps |-> <<>>,
     raised |-> FALSE, error |-> "None", agent_calls |-> <<>>, entered |-> <<>>]

\* execute_node got past its guard for the node.
Entered(st, node_id) == [st EXCEPT !.entered = Append(@, node_id)]

Raise(st, message) == [st EXCEPT !.raised = TRUE, !.error = message]

\* total_cost = round(total_cost + ..., 5) inside execute_node rebinds a name
\* that execute_node never declares nonlocal: the read raises.
AccumulateWorkflowCost(st, result) ==
    Raise(st, "local variable 'total_cost' referenced before assignment")

\* The try body of execute_node up to executed_nodes.add.
NodeBody(ctx, st, node) ==
    CASE node.node_type = "start" ->
           [st EXCEPT !.node_outputs = SetOutput(@, node.node_id, Dict(ctx.input_data))]
      [] node.node_type = "input" ->
           [st EXCEPT !.node_outputs =
               SetOutput(@, node.node_id,
                         Get(node.configuration, "default_value", Dict(EmptyDict)))]
      [] node.node_type = "agent" ->
           IF Get(node.configuration, "agent_id", 0) = 0
           THEN Raise(st, "No agent specified for node")
           ELSE IF node.configuration.agent_id \notin DOMAIN AgentTable
           THEN Raise(st, "Agent not found")
           ELSE LET agent == AgentTable[node.configuration.agent_id]
                    agent_input == _get_node_input(node.node_id, ctx.wf, ctx.graph,
                                                   st.node_outputs)
                    result == execute_agent(agent, agent_input, ctx.client, ctx.script)
                    called == [st EXCEPT !.agent_calls =
                                  Append(@, [node_id |-> node.node_id,
                                             agent_id |-> agent.id,
                                             input |-> agent_input])]
                IN IF result.success
                   THEN AccumulateWorkflowCost(
                           [called EXCEPT !.node_outputs =
                               SetOutput(@, node.node_id, Text(result.output))],
                           result)
                   ELSE Raise(called, "Agent execution failed")
      [] node.node_type = "end" ->
           [st EXCEPT !.node_outputs =
               SetOutput(@, node.node_id,
                         Dict(_get_node_input(node.node_id, ctx.wf, ctx.graph,
                                              st.node_outputs)))]
      [] OTHER -> st

SuccessStep(node, node_outputs) ==
    [node_id |-> node.node_id, node_type |-> node.node_type, success |-> TRUE,
     output |-> IF HasOutput(node_outputs, node.node_id)
                THEN OutputOf(node_outputs, node.node_id)
                ELSE NoneText]

FailureStep(node, message) ==
    [node_id |-> node.node_id, node_type |-> node.node_type, success |-> FALSE,
     error |-> message]

\* The one element of a singleton set: binds a value once it is computed.
TheValue(S) == CHOOSE v \in S : TRUE

RECURSIVE execute_node(_, _, _)
RECURSIVE execute_nodes(_, _, _)

\* Variant: a node counts as executed only while its children are being
\* executed; it is taken out of executed_nodes when its call returns.
execute_node_unmarks(ctx, st, node_id) ==
    IF node_id \in st.executed_nodes THEN st
    ELSE IF node_id \notin NodeIds(ctx.wf) THEN Raise(st, "KeyError")
    ELSE LET node == NodeById(ctx.wf, node_id)
         IN TheValue({
              IF worked.raised
              THEN [worked EXCEPT !.steps = Append(@, FailureStep(node, worked.error))]
              ELSE TheValue({
                     IF descended.raised
                     THEN [descended EXCEPT
                             !.steps = Append(@, FailureStep(node, descended.error))]
                     ELSE [descended EXCEPT !.executed_nodes = @ \ {node_id}] :
                     descended \in {execute_nodes(ctx,
                         [worked EXCEPT
                            !.executed_nodes = @ \cup {node_id},
                            !.steps = Append(@, SuccessStep(node, worked.node_outputs))],
                         ctx.graph[node_id])}}) :
              worked \in {NodeBody(ctx, Entered(st, node_id), node)}})

\* execute_node(node_id): the try covers the node's own work and the calls
\* for its children, so an exception of a descendant passes through the
\* except branch of every ancestor.
execute_node(ctx, st, node_id) ==
    IF node_id \in st.executed_nodes THEN st
    ELSE IF node_id \notin NodeIds(ctx.wf) THEN Raise(st, "KeyError")
    ELSE LET node == NodeById(ctx.wf, node_id)
         IN TheValue({
              IF worked.raised
              THEN [worked EXCEPT !.steps = Append(@, FailureStep(node, worked.error))]
              ELSE TheValue({
                     IF descended.raised
                     THEN [descended EXCEPT
                             !.steps = Append(@, FailureStep(node, descended.error))]
                     ELSE descended :
                     descended \in {execute_nodes(ctx,
                         [worked EXCEPT
                            !.executed_nodes = @ \cup {node_id},
                            !.steps = Append(@, SuccessStep(node, worked.node_outputs))],
                         ctx.graph[node_id])}}) :
              worked \in {NodeBody(ctx, Entered(st, node_id), node)}})

\* for child_id in ...: execute_node(child_id), left at the first exception.
execute_nodes(ctx, st, ids) ==
    IF ids = <<>> \/ st.raised THEN st
    ELSE TheValue({execute_nodes(ctx, done, Tail(ids)) :
                   done \in {execute_node(ctx, st, Head(ids))}})

\* Variant: the traversal without the check for a start node.
WorkflowTraversal_without_start_check(ctx) ==
    execute_nodes(ctx, WorkflowEnter, NodesOfType(ctx.wf, "start"))

\* The traversal of _execute_workflow_graph: its closure state at the end,
\* raised when an exception leaves it.
WorkflowTraversal(ctx) ==
    IF NodesOfType(ctx.wf, "start") = <<>>
    THEN Raise(WorkflowEnter, "No start node found in workflow")
    ELSE execute_nodes(ctx, WorkflowEnter, NodesOfType(ctx.wf, "start"))

FinalOutput(wf, st) ==
    LET end_nodes == NodesOfType(wf, "end")
        with_output == {end_nodes[i] : i \in {j \in 1..Len(end_nodes) :
                                                HasOutput(st.node_outputs, end_nodes[j])}}
    IN IF with_output # {}
       THEN Dict([e \in with_output |-> OutputOf(st.node_outputs, e)])
       ELSE IF st.node_outputs # <<>>
       THEN st.node_outputs[Len(st.node_outputs)].value
       ELSE Dict(EmptyDict)

\* The outer total_cost of _execute_workflow_graph is only ever its initial 0.0.
_execute_workflow_graph(ctx, st) ==
    [success |-> TRUE,
     output |-> FinalOutput(ctx.wf, st),
     error |-> "None",
     steps |-> st.steps,
     total_cost |-> 0,
     nodes_executed |-> Cardinality(st.executed_nodes)]

WorkflowFailure(message) ==
    [success |-> FALSE, output |-> NoneText, error |-> message, steps |-> <<>>]

WorkflowContext(wf, input_data, client, script) ==
    [wf |-> wf, graph |-> _build_execution_graph(wf), input_data |-> input_data,
     client |-> client, script |-> script]

\* WorkflowService.execute_workflow; every agent node's LLM answers with script.
execute_workflow(wf, input_data, client, script) ==
    IF GraphRaises(wf) THEN WorkflowFailure("KeyError")
    ELSE LET st == WorkflowTraversal(WorkflowContext(wf, input_data, client, script))
         IN IF st.raised
            THEN WorkflowFailure(st.error)
            ELSE _execute_workflow_graph(WorkflowContext(wf, input_data, client, script), st)

(* ------------------------------------------------------------------ *)
(* State                                                                *)
(* ------------------------------------------------------------------ *)

\* Number of submission requests that arrive.
MaxRequests == 2

\* app.config['MAX_CONCURRENT_EXECUTIONS']: the max_workers of app.executor.
MAX_CONCURRENT_EXECUTIONS == 1

VARIABLES
    executions,          \* table executions: row id -> committed row
    execution_steps,     \* table execution_steps, in insertion order
    costs,               \* table costs, in insertion order
    running_executions,  \* ExecutionService.running_executions (its keys)
    work_queue,          \* work items app.executor has not started yet
    workers,             \* the pool threads: locals of the background task
    requests,            \* the request threads of the execution endpoints
    task_log,            \* history: what happened in each background task
    llm_client,          \* LLMService.clients['azure_openai'] is configured
    run_pc,              \* an execute_agent call: where it stands
    run_agent,           \*   its agent
    run_input,           \*   its input_data
    loop,                \*   the locals of _execute_agent_with_tools
    run_result,          \*   what it returned
    llm_calls,           \* history: the results of the call_llm calls it made
    tool_calls,          \* history: _execute_tool_call calls made by the call
    directive,           \* a tool-call directive handed to _execute_tool_call
    parsed,              \*   the tool name and params it was parsed into
    database,            \* the SQLite database file: table name -> rows
    sql_call,            \* a call of the SQL gateway: its arguments
    sql_result,          \*   what it returned (status: the endpoint's HTTP status)
    sql_log,             \* history: the statements the driver ran for the call
    connections,         \* history: the connections the gateway opened
    wf_call,             \* a call of execute_workflow: its arguments
    wf_result,           \*   what it returned
    wf_trace             \* history: the closure state of its traversal at the end

coordVars ==
    <<executions, execution_steps, costs, running_executions, work_queue,
      workers, requests, task_log>>

agentVars == <<run_pc, run_agent, run_input, loop, run_result, llm_calls, tool_calls>>

toolVars == <<directive, parsed>>

sqlVars == <<database, sql_call, sql_result, sql_log, connections>>

workflowVars == <<wf_call, wf_result, wf_trace>>

vars == <<coordVars, llm_client, agentVars, toolVars, sqlVars, workflowVars>>

Requests == 1..MaxRequests

\* Variant: a pool with one thread more than the configured limit.
Workers_one_more == 1..(MAX_CONCURRENT_EXECUTIONS + 1)

\* The threads of app.executor.
Workers == 1..MAX_CONCURRENT_EXECUTIONS

\* The authenticated user of each request.
UserOf(r) == ((r - 1) % 2) + 1

\* (execution_type, target_id) pairs the requests ask for; 99 names no row.
SubmitTargets ==
    {<<"agent", 1>>, <<"agent", 99>>, <<"workflow", 2>>, <<"workflow", 5>>,
     <<"workflow", 99>>}

\* The scripts the LLM backend and the tools follow during one execution.
CoordScripts ==
    {<<[llm |-> [raises |-> TRUE, error |-> "backend unreachable"],
        body |-> [raises |-> FALSE, output |-> <<"value">>]]>>,
     <<[llm |-> [raises |-> FALSE, content |-> FinalResponse, total_tokens |-> 75],
        body |-> [raises |-> FALSE, output |-> <<"value">>]]>>}

IdleWorker ==
    [pc |-> "idle", fn |-> "None", execution_id |-> 0, session_bound |-> FALSE,
     execution |-> EmptyDict, new_steps |-> <<>>, new_costs |-> <<>>,
     result |-> EmptyDict, exc |-> "None"]

NewRequest ==
    [pc |-> "new", execution_type |-> "None", target_id |-> 0, execution_id |-> 0,
     response |-> 0]

NewTask ==
    [loaded |-> FALSE, target_missing |-> FALSE, exc |-> "None",
     runner_calls |-> 0, runner_threads |-> {}, result |-> EmptyDict,
     returned |-> FALSE]

CoordInit ==
    /\ executions = <<>>
    /\ execution_steps = <<>>
    /\ costs = <<>>
    /\ running_executions = {}
    /\ work_queue = <<>>
    /\ workers = [w \in Workers |-> IdleWorker]
    /\ requests = [r \in Requests |-> NewRequest]
    /\ task_log = <<>>

\* No directive is being parsed.
ToolIdle ==
    /\ directive = EmptyDict
    /\ parsed = EmptyDict

\* No SQL gateway call is made; the database file is not looked at.
SqlIdle ==
    /\ database = EmptyDict
    /\ sql_call = EmptyDict
    /\ sql_result = EmptyDict
    /\ sql_log = <<>>
    /\ connections = <<>>

\* No direct execute_workflow call is made.
WorkflowIdle ==
    /\ wf_call = EmptyDict
    /\ wf_result = EmptyDict
    /\ wf_trace = EmptyDict

AgentIdle ==
    /\ run_pc = "none"
    /\ run_agent = EmptyDict
    /\ run_input = EmptyDict
    /\ loop = EmptyDict
    /\ run_result = EmptyDict
    /\ llm_calls = <<>>
    /\ tool_calls = 0

(* ------------------------------------------------------------------ *)
(* One call of AgentService.execute_agent, step by step                 *)
(* ------------------------------------------------------------------ *)

AgentRows == {AgentTable[i] : i \in DOMAIN AgentTable}

InitAgent ==
    /\ CoordInit
    /\ llm_client \in BOOLEAN
    /\ run_pc = "call"
    /\ run_agent \in AgentRows
    /\ run_input \in InputPayloads
    /\ loop = EmptyDict
    /\ run_result = EmptyDict
    /\ llm_calls = <<>>
    /\ tool_calls = 0
    /\ ToolIdle
    /\ SqlIdle
    /\ WorkflowIdle

\* execute_agent leaves through its except branch before any LLM call.
ExecuteAgentFails ==
    /\ run_pc = "call"
    /\ AgentDispatch(run_agent, run_input).to = "fail"
    /\ run_result' = AgentDispatch(run_agent, run_input).result
    /\ run_pc' = "done"
    /\ UNCHANGED <<coordVars, toolVars, sqlVars, workflowVars, llm_client, run_agent, run_input, loop, llm_calls, tool_calls>>

\* execute_agent -> _execute_simple_agent, with its one LLM call.
ExecuteSimpleAgent ==
    /\ run_pc = "call"
    /\ AgentDispatch(run_agent, run_input).to = "simple"
    /\ \E answer \in BackendAnswers :
          LET llm_result == call_llm(ModelTable[run_agent.model_id], llm_client, answer)
          IN /\ run_result' = _execute_simple_agent(llm_result)
             /\ llm_calls' = Append(llm_calls, llm_result)
    /\ run_pc' = "done"
    /\ UNCHANGED <<coordVars, toolVars, sqlVars, workflowVars, llm_client, run_agent, run_input, loop, tool_calls>>

\* execute_agent -> _execute_agent_with_tools, up to the head of the loop.
EnterReactLoop ==
    /\ run_pc = "call"
    /\ AgentDispatch(run_agent, run_input).to = "tools"
    /\ loop' = ReactEnter(run_agent, AgentDispatch(run_agent, run_input).prompt)
    /\ run_pc' = "react"
    /\ UNCHANGED <<coordVars, toolVars, sqlVars, workflowVars, llm_client, run_agent, run_input, run_result, llm_calls,
                   tool_calls>>

\* One iteration's LLM call and what the loop does with its result.
ReactLlmCall ==
    /\ run_pc = "react"
    /\ LoopContinues(run_agent, loop)
    /\ \E answer \in BackendAnswers :
          LET llm_result == call_llm(ModelTable[run_agent.model_id], llm_client, answer)
              st == ReactLlmStep(run_agent, loop, llm_result)
          IN /\ loop' = st
             /\ run_pc' = IF st.ctl = "return" THEN "done" ELSE "react"
             /\ run_result' = IF st.ctl = "return" THEN st.result ELSE run_result
             /\ llm_calls' = Append(llm_calls, llm_result)
    /\ UNCHANGED <<coordVars, toolVars, sqlVars, workflowVars, llm_client, run_agent, run_input, tool_calls>>

\* The tool call of an iteration.
ReactToolCall ==
    /\ run_pc = "react"
    /\ loop.ctl = "tool"
    /\ \E body \in ToolBodies : loop' = ReactToolStep(run_agent, loop, body)
    /\ tool_calls' = tool_calls + 1
    /\ UNCHANGED <<coordVars, toolVars, sqlVars, workflowVars, llm_client, run_agent, run_input, run_pc, run_result,
                   llm_calls>>

\* The return that follows the loop.
ReactReturnAfterLoop ==
    /\ run_pc = "react"
    /\ LoopLeft(run_agent, loop)
    /\ run_result' = ReactExit(run_agent, loop)
    /\ run_pc' = "done"
    /\ UNCHANGED <<coordVars, toolVars, sqlVars, workflowVars, llm_client, run_agent, run_input, loop, llm_calls, tool_calls>>

NextAgent ==
    \/ ExecuteAgentFails
    \/ ExecuteSimpleAgent
    \/ EnterReactLoop
    \/ ReactLlmCall
    \/ ReactToolCall
    \/ ReactReturnAfterLoop

SpecAgent == InitAgent /\ [][NextAgent]_vars

(* ------------------------------------------------------------------ *)
(* Execution Coordinator: ExecutionService and the execution endpoints  *)
(* ------------------------------------------------------------------ *)

\* Variant: the row is created already running.
NewExecution_running(execution_type, target_id, input_data, user_id) ==
    [execution_type |-> execution_type,
     target_id |-> target_id,
     input_data |-> input_data,
     status |-> "running",
     output_data |-> EmptyDict,
     error_message |-> "None",
     progress |-> 0,
     started_at |-> TRUE,
     completed_at |-> FALSE,
     created_by |-> user_id]

\* Execution(execution_type=..., target_id=..., input_data=..., status='pending',
\* created_by=...) with the column defaults of the model.
NewExecution(execution_type, target_id, input_data, user_id) ==
    [execution_type |-> execution_type,
     target_id |-> target_id,
     input_data |-> input_data,
     status |-> "pending",
     output_data |-> EmptyDict,
     error_message |-> "None",
     progress |-> 0,
     started_at |-> FALSE,
     completed_at |-> FALSE,
     created_by |-> user_id]

\* execution.status = 'running'; execution.started_at = utcnow()
MarkRunning(execution) ==
    [execution EXCEPT !.status = "running", !.started_at = TRUE]

TargetMissingMessage(fn) ==
    IF fn = "agent" THEN "Agent not found" ELSE "Workflow not found"

\* The three assignments of the "target not found" branch.
MarkTargetMissing(execution, fn) ==
    [execution EXCEPT !.status = "failed",
                      !.error_message = TargetMissingMessage(fn),
                      !.completed_at = TRUE]

\* Variant: an unsuccessful result puts the execution back to pending.
ApplyResult_reopens(execution, result) ==
    [execution EXCEPT !.status = IF result.success THEN "completed" ELSE "pending",
                      !.output_data = Get(result, "output", NoneText),
                      !.error_message = Get(result, "error", "None"),
                      !.completed_at = result.success,
                      !.progress = 1]

\* Variant: the status is left as it was loaded.
ApplyResult_keeps_status(execution, result) ==
    [execution EXCEPT !.output_data = Get(result, "output", NoneText),
                      !.error_message = Get(result, "error", "None"),
                      !.completed_at = TRUE,
                      !.progress = 1]

\* The six assignments under "# Update execution".
ApplyResult(execution, result) ==
    [execution EXCEPT !.status = IF result.success THEN "completed" ELSE "failed",
                      !.output_data = Get(result, "output", NoneText),
                      !.error_message = Get(result, "error", "None"),
                      !.completed_at = TRUE,
                      !.progress = 1]

\* Variant: step_order=i, the index enumerate() yields.
StepRows_from_zero(fn, execution_id, result) ==
    LET steps == Get(result, "steps", <<>>)
    IN [i \in 1..Len(steps) |->
          [execution_id |-> execution_id,
           step_order |-> i - 1,
           step_type |-> IF fn = "agent" THEN Get(steps[i], "type", "unknown")
                         ELSE Get(steps[i], "node_type", "unknown"),
           step_name |-> IF fn = "agent" THEN "None" ELSE Get(steps[i], "node_id", "None"),
           status |-> IF Get(steps[i], "success", FALSE) THEN "completed" ELSE "failed",
           error_message |-> IF fn = "agent" THEN "None" ELSE Get(steps[i], "error", "None")]]

\* The ExecutionStep rows added for the steps of a result.
StepRows(fn, execution_id, result) ==
    LET steps == Get(result, "steps", <<>>)
    IN [i \in 1..Len(steps) |->
          [execution_id |-> execution_id,
           step_order |-> i,
           step_type |-> IF fn = "agent" THEN Get(steps[i], "type", "unknown")
                         ELSE Get(steps[i], "node_type", "unknown"),
           step_name |-> IF fn = "agent" THEN "None" ELSE Get(steps[i], "node_id", "None"),
           status |-> IF Get(steps[i], "success", FALSE) THEN "completed" ELSE "failed",
           error_message |-> IF fn = "agent" THEN "None" ELSE Get(steps[i], "error", "None")]]

\* The Cost row added when the result's total cost is positive.
CostRows(execution, execution_id, result) ==
    IF Get(result, "total_cost", 0) > 0
    THEN <<[user_id |-> execution.created_by,
            execution_id |-> execution_id,
            cost_type |-> "llm_call",
            amount |-> Round5(Get(result, "total_cost", 0))]>>
    ELSE <<>>

\* Variant: the except branch leaves completed_at as it is.
MarkFailed_no_completed_at(execution, message) ==
    [execution EXCEPT !.status = "failed",
                      !.error_message = message]

\* The three assignments of the except branch.
MarkFailed(execution, message) ==
    [execution EXCEPT !.status = "failed",
                      !.error_message = message,
                      !.completed_at = TRUE]

\* The runner a background task calls for its target.
RunTarget(fn, target_id, input_data, client, script) ==
    IF fn = "agent"
    THEN execute_agent(AgentTable[target_id], input_data, client, script)
    ELSE execute_workflow(WorkflowTable[target_id], input_data, client, script)

TargetExists(fn, target_id) ==
    IF fn = "agent" THEN target_id \in DOMAIN AgentTable
    ELSE target_id \in DOMAIN WorkflowTable

\* session.commit() of a worker: its Execution object and the rows it added.
Committed(rows, execution_id, execution) ==
    [rows EXCEPT ![execution_id] = execution]

\* --- the request thread: the endpoint and execute_*_async ---

\* 400: the body carries no input_data.
RequestRejected(r) ==
    /\ requests[r].pc = "new"
    /\ requests' = [requests EXCEPT ![r] = [@ EXCEPT !.pc = "done", !.response = 400]]
    /\ UNCHANGED <<executions, execution_steps, costs, running_executions, work_queue,
                   workers, task_log, llm_client, agentVars, toolVars, sqlVars, workflowVars>>

\* db.session.add(execution); db.session.commit() raises: the endpoint answers 500.
SubmitCommitFails(r) ==
    /\ requests[r].pc = "new"
    /\ requests' = [requests EXCEPT ![r] = [@ EXCEPT !.pc = "done", !.response = 500]]
    /\ UNCHANGED <<executions, execution_steps, costs, running_executions, work_queue,
                   workers, task_log, llm_client, agentVars, toolVars, sqlVars, workflowVars>>

\* The Execution row is added and committed; execution_id = execution.id.
SubmitCommit(r) ==
    /\ requests[r].pc = "new"
    /\ \E target \in SubmitTargets :
          /\ executions' = Append(executions,
                                  NewExecution(target[1], target[2], GoodInput, UserOf(r)))
          /\ requests' = [requests EXCEPT ![r] =
                             [@ EXCEPT !.pc = "committed",
                                       !.execution_type = target[1],
                                       !.target_id = target[2],
                                       !.execution_id = Len(executions) + 1]]
    /\ task_log' = Append(task_log, NewTask)
    /\ UNCHANGED <<execution_steps, costs, running_executions, work_queue, workers,
                   llm_client, agentVars, toolVars, sqlVars, workflowVars>>

\* future = executor.submit(self._execute_*_background, execution_id)
PoolSubmit(r) ==
    /\ requests[r].pc = "committed"
    /\ work_queue' = Append(work_queue, [fn |-> requests[r].execution_type,
                                         execution_id |-> requests[r].execution_id])
    /\ requests' = [requests EXCEPT ![r] = [@ EXCEPT !.pc = "submitted"]]
    /\ UNCHANGED <<executions, execution_steps, costs, running_executions, workers,
                   task_log, llm_client, agentVars, toolVars, sqlVars, workflowVars>>

\* self.running_executions[execution_id] = future; return execution_id; 202.
RegisterFuture(r) ==
    /\ requests[r].pc = "submitted"
    /\ running_executions' = running_executions \cup {requests[r].execution_id}
    /\ requests' = [requests EXCEPT ![r] = [@ EXCEPT !.pc = "done", !.response = 202]]
    /\ UNCHANGED <<executions, execution_steps, costs, work_queue, workers, task_log,
                   llm_client, agentVars, toolVars, sqlVars, workflowVars>>

\* --- a pool thread: _execute_agent_background / _execute_workflow_background ---

\* An idle pool thread takes the oldest work item.
WorkerTake(w) ==
    /\ workers[w].pc = "idle"
    /\ work_queue # <<>>
    /\ workers' = [workers EXCEPT ![w] =
                      [IdleWorker EXCEPT !.pc = "start",
                                         !.fn = Head(work_queue).fn,
                                         !.execution_id = Head(work_queue).execution_id]]
    /\ work_queue' = Tail(work_queue)
    /\ UNCHANGED <<executions, execution_steps, costs, running_executions, requests,
                   task_log, llm_client, agentVars, toolVars, sqlVars, workflowVars>>

\* From the top of the try to the commit of status 'running'.
BgStart(w) ==
    /\ workers[w].pc = "start"
    /\ LET me == workers[w]
           id == me.execution_id
       IN \/ \* self.db.engine / sessionmaker / Session() raises: session stays unbound
             /\ workers' = [workers EXCEPT ![w] =
                               [me EXCEPT !.pc = "except", !.exc = "session error"]]
             /\ task_log' = [task_log EXCEPT ![id] = [@ EXCEPT !.exc = "session error"]]
             /\ UNCHANGED executions
          \/ \* the query for the Execution raises
             /\ workers' = [workers EXCEPT ![w] =
                               [me EXCEPT !.pc = "except", !.session_bound = TRUE,
                                          !.exc = "query error"]]
             /\ task_log' = [task_log EXCEPT ![id] = [@ EXCEPT !.exc = "query error"]]
             /\ UNCHANGED executions
          \/ \* the Execution is loaded; the commit of 'running' raises
             /\ id \in DOMAIN executions
             /\ workers' = [workers EXCEPT ![w] =
                               [me EXCEPT !.pc = "except", !.session_bound = TRUE,
                                          !.execution = MarkRunning(executions[id]),
                                          !.exc = "commit error"]]
             /\ task_log' = [task_log EXCEPT ![id] =
                                [@ EXCEPT !.loaded = TRUE, !.exc = "commit error"]]
             /\ UNCHANGED executions
          \/ \* no exception: return early without a row, else commit 'running'
             IF id \notin DOMAIN executions
             THEN /\ workers' = [workers EXCEPT ![w] =
                                    [me EXCEPT !.pc = "finally", !.session_bound = TRUE]]
                  /\ UNCHANGED <<executions, task_log>>
             ELSE /\ executions' = Committed(executions, id, MarkRunning(executions[id]))
                  /\ workers' = [workers EXCEPT ![w] =
                                    [me EXCEPT !.pc = "lookup", !.session_bound = TRUE,
                                               !.execution = MarkRunning(executions[id])]]
                  /\ task_log' = [task_log EXCEPT ![id] = [@ EXCEPT !.loaded = TRUE]]
    /\ UNCHANGED <<execution_steps, costs, running_executions, work_queue, requests,
                   llm_client, agentVars, toolVars, sqlVars, workflowVars>>

\* The query for the target and the "not found" branch.
BgLookup(w) ==
    /\ workers[w].pc = "lookup"
    /\ LET me == workers[w]
           id == me.execution_id
           missing == ~TargetExists(me.fn, me.execution.target_id)
       IN \/ \* the query for the target raises
             /\ workers' = [workers EXCEPT ![w] =
                               [me EXCEPT !.pc = "except", !.exc = "query error"]]
             /\ task_log' = [task_log EXCEPT ![id] = [@ EXCEPT !.exc = "query error"]]
             /\ UNCHANGED executions
          \/ \* not found; the commit of 'failed' raises
             /\ missing
             /\ workers' = [workers EXCEPT ![w] =
                               [me EXCEPT !.pc = "except",
                                          !.execution = MarkTargetMissing(me.execution, me.fn),
                                          !.exc = "commit error"]]
             /\ task_log' = [task_log EXCEPT ![id] =
                                [@ EXCEPT !.target_missing = TRUE, !.exc = "commit error"]]
             /\ UNCHANGED executions
          \/ \* not found; 'failed' is committed and the task returns
             /\ missing
             /\ executions' = Committed(executions, id,
                                        MarkTargetMissing(me.execution, me.fn))
             /\ workers' = [workers EXCEPT ![w] =
                               [me EXCEPT !.pc = "finally",
                                          !.execution = MarkTargetMissing(me.execution, me.fn)]]
             /\ task_log' = [task_log EXCEPT ![id] = [@ EXCEPT !.target_missing = TRUE]]
          \/ \* found
             /\ ~missing
             /\ workers' = [workers EXCEPT ![w] = [me EXCEPT !.pc = "run"]]
             /\ UNCHANGED <<executions, task_log>>
    /\ UNCHANGED <<execution_steps, costs, running_executions, work_queue, requests,
                   llm_client, agentVars, toolVars, sqlVars, workflowVars>>

\* The call of execute_agent / execute_workflow (it returns a result, it
\* never raises: both catch Exception).
BgRun(w) ==
    /\ workers[w].pc = "run"
    /\ LET me == workers[w]
           id == me.execution_id
       IN \E script \in CoordScripts :
             \E result \in {RunTarget(me.fn, me.execution.target_id,
                                      me.execution.input_data, llm_client, script)} :
                /\ workers' = [workers EXCEPT ![w] =
                                  [me EXCEPT !.pc = "persist", !.result = result]]
                /\ task_log' = [task_log EXCEPT ![id] =
                                   [@ EXCEPT !.runner_calls = @ + 1,
                                             !.runner_threads = @ \cup {<<"worker", w>>},
                                             !.result = result]]
    /\ UNCHANGED <<executions, execution_steps, costs, running_executions, work_queue,
                   requests, llm_client, agentVars, toolVars, sqlVars, workflowVars>>

\* From "# Update execution" to the final commit.
BgPersist(w) ==
    /\ workers[w].pc = "persist"
    /\ LET me == workers[w]
           id == me.execution_id
           updated == ApplyResult(me.execution, me.result)
           step_rows == StepRows(me.fn, id, me.result)
           cost_rows == CostRows(me.execution, id, me.result)
       IN \/ \* the commit raises: the session keeps what was set and added
             /\ workers' = [workers EXCEPT ![w] =
                               [me EXCEPT !.pc = "except", !.execution = updated,
                                          !.new_steps = step_rows,
                                          !.new_costs = cost_rows,
                                          !.exc = "commit error"]]
             /\ task_log' = [task_log EXCEPT ![id] = [@ EXCEPT !.exc = "commit error"]]
             /\ UNCHANGED <<executions, execution_steps, costs>>
          \/ \* the commit succeeds
             /\ executions' = Committed(executions, id, updated)
             /\ execution_steps' = execution_steps \o step_rows
             /\ costs' = costs \o cost_rows
             /\ workers' = [workers EXCEPT ![w] =
                               [me EXCEPT !.pc = "finally", !.execution = updated]]
             /\ UNCHANGED task_log
    /\ UNCHANGED <<running_executions, work_queue, requests, llm_client, agentVars, toolVars, sqlVars, workflowVars>>

\* The except branch: it records the failure through the task's session, and
\* passes over whatever that attempt raises.
BgExcept(w) ==
    /\ workers[w].pc = "except"
    /\ LET me == workers[w]
           id == me.execution_id
           execution == IF me.execution # EmptyDict THEN me.execution ELSE executions[id]
       IN \/ \* session is unbound, or the query or the commit raises: pass
             /\ workers' = [workers EXCEPT ![w] = [me EXCEPT !.pc = "finally"]]
             /\ UNCHANGED <<executions, execution_steps, costs>>
          \/ \* the Execution is marked failed and the session is committed
             /\ me.session_bound
             /\ id \in DOMAIN executions
             /\ executions' = Committed(executions, id, MarkFailed(execution, me.exc))
             /\ execution_steps' = execution_steps \o me.new_steps
             /\ costs' = costs \o me.new_costs
             /\ workers' = [workers EXCEPT ![w] =
                               [me EXCEPT !.pc = "finally",
                                          !.execution = MarkFailed(execution, me.exc),
                                          !.new_steps = <<>>, !.new_costs = <<>>]]
    /\ UNCHANGED <<running_executions, work_queue, requests, task_log, llm_client,
                   agentVars, toolVars, sqlVars, workflowVars>>

\* The finally branch; the task returns and the thread is free again.
BgFinally(w) ==
    /\ workers[w].pc = "finally"
    /\ running_executions' = running_executions \ {workers[w].execution_id}
    /\ task_log' = [task_log EXCEPT ![workers[w].execution_id] = [@ EXCEPT !.returned = TRUE]]
    /\ workers' = [workers EXCEPT ![w] = IdleWorker]
    /\ UNCHANGED <<executions, execution_steps, costs, work_queue, requests, llm_client,
                   agentVars, toolVars, sqlVars, workflowVars>>

Init ==
    /\ CoordInit
    /\ llm_client \in BOOLEAN
    /\ AgentIdle
    /\ ToolIdle
    /\ SqlIdle
    /\ WorkflowIdle

Next ==
    \/ \E r \in Requests :
          \/ RequestRejected(r)
          \/ SubmitCommitFails(r)
          \/ SubmitCommit(r)
          \/ PoolSubmit(r)
          \/ RegisterFuture(r)
    \/ \E w \in Workers :
          \/ WorkerTake(w)
          \/ BgStart(w)
          \/ BgLookup(w)
          \/ BgRun(w)
          \/ BgPersist(w)
          \/ BgExcept(w)
          \/ BgFinally(w)

Spec == Init /\ [][Next]_vars

(* ------------------------------------------------------------------ *)
(* Properties of the Execution Coordinator (checked under Spec)         *)
(* ------------------------------------------------------------------ *)

ExecutionIds == DOMAIN executions

TerminalStatuses == {"completed", "failed", "cancelled"}

StatusRank(status) ==
    CASE status = "pending" -> 0
      [] status = "running" -> 1
      [] OTHER -> 2

\* The persisted status of execution id changes in this step.
StatusWritten(id) == executions'[id].status # executions[id].status

\* C1 (as stated): every change of a persisted status is pending -> running,
\* running -> completed or running -> failed.
C1_OnlyThroughRunning ==
    [][\A id \in ExecutionIds :
          StatusWritten(id) =>
             <<executions[id].status, executions'[id].status>> \in
                {<<"pending", "running">>, <<"running", "completed">>,
                 <<"running", "failed">>}]_vars

\* C1 (amended): a persisted status never moves backward in the order
\* pending < running < {completed, failed}; completed is only written over
\* running; failed is written over running or, when the task fails before its
\* 'running' write is committed, directly over pending; a status that is
\* completed or failed is never changed by a later write.
C1_StatusMonotonic ==
    [][\A id \in ExecutionIds :
          StatusWritten(id) =>
             /\ executions[id].status \notin TerminalStatuses
             /\ StatusRank(executions'[id].status) > StatusRank(executions[id].status)
             /\ <<executions[id].status, executions'[id].status>> \in
                   {<<"pending", "running">>, <<"running", "completed">>,
                    <<"running", "failed">>, <<"pending", "failed">>}]_vars

\* An execution that failed without 'running' ever being persisted stands
\* next to one that completed through running.
C1_Witness ==
    \E a, b \in ExecutionIds :
       /\ executions[a].status = "failed" /\ ~executions[a].started_at
       /\ executions[b].status = "completed" /\ executions[b].started_at

\* C2: in every persisted state of every Execution, completed_at is set
\* exactly when the status is completed, failed or cancelled.
C2_CompletedAtIffTerminal ==
    \A id \in ExecutionIds :
       executions[id].completed_at <=> executions[id].status \in TerminalStatuses

\* A failed row written by the except branch stands next to a running row.
C2_Witness ==
    \E a, b \in ExecutionIds :
       /\ executions[a].status = "failed" /\ executions[a].completed_at
       /\ executions[a].error_message = "commit error"
       /\ executions[b].status = "running" /\ ~executions[b].completed_at

\* The requests whose submit call has committed its Execution row.
Submitted == {r \in Requests : requests[r].pc \in {"committed", "submitted"}
                               \/ requests[r].response = 202}

\* The pool holds execution id: queued, taken by a worker, or already run.
HandedToPool(id) ==
    \/ \E i \in 1..Len(work_queue) : work_queue[i].execution_id = id
    \/ \E w \in Workers : workers[w].pc # "idle" /\ workers[w].execution_id = id
    \/ task_log[id].returned

\* C3: a submit call persists exactly one Execution row, with status pending,
\* hands its id to the pool before it returns, and the 202 answer carries that
\* id; a rejected or failed request persists nothing; a runner is only ever
\* called by a pool worker, after the hand-over.
C3_SubmitContract ==
    /\ Len(executions) = Cardinality(Submitted)
    /\ \A r \in Submitted :
          /\ requests[r].execution_id \in ExecutionIds
          /\ executions[requests[r].execution_id].execution_type = requests[r].execution_type
          /\ executions[requests[r].execution_id].target_id = requests[r].target_id
          /\ \A q \in Submitted : q # r => requests[q].execution_id # requests[r].execution_id
          /\ requests[r].pc = "committed" =>
                /\ executions[requests[r].execution_id].status = "pending"
                /\ ~HandedToPool(requests[r].execution_id)
                /\ task_log[requests[r].execution_id].runner_calls = 0
          /\ requests[r].response = 202 => HandedToPool(requests[r].execution_id)
    /\ \A r \in Requests \ Submitted : requests[r].execution_id = 0
    /\ \A i \in 1..Len(work_queue) :
          executions[work_queue[i].execution_id].status = "pending"
    /\ \A id \in ExecutionIds :
          task_log[id].runner_threads \subseteq {<<"worker", w>> : w \in Workers}

\* Both requests were answered 202 and a worker has called the runner for one.
C3_Witness ==
    /\ \A r \in Requests : requests[r].response = 202
    /\ \E id \in ExecutionIds : task_log[id].runner_calls = 1
    /\ Len(executions) = MaxRequests

\* C4 (as stated): once the background task of an execution has returned and
\* its submit call has returned, the registry holds no entry for its id.
C4_RegistryCleared ==
    \A r \in Requests :
       (requests[r].response = 202 /\ task_log[requests[r].execution_id].returned)
          => requests[r].execution_id \notin running_executions

\* C5 (as stated): a task that raised after loading its Execution and has
\* returned left the Execution failed with the exception's message.
C5_ExceptionRecorded ==
    \A id \in ExecutionIds :
       (task_log[id].returned /\ task_log[id].loaded /\ task_log[id].exc # "None")
          => /\ executions[id].status = "failed"
             /\ executions[id].error_message = task_log[id].exc

\* C6 (as stated): an execution whose target does not exist, once its task
\* has returned, is failed with a message naming the missing target, and no
\* runner was called for it.
C6_MissingTargetFails ==
    \A id \in ExecutionIds :
       (task_log[id].returned
        /\ ~TargetExists(executions[id].execution_type, executions[id].target_id))
          => /\ executions[id].status = "failed"
             /\ executions[id].error_message =
                   TargetMissingMessage(executions[id].execution_type)
             /\ task_log[id].runner_calls = 0

(* ------------------------------------------------------------------ *)
(* Properties of the Agent Runner (checked under SpecAgent)             *)
(* ------------------------------------------------------------------ *)

\* The steps recorded so far: those of the result once the call has returned,
\* else those of the loop, if the loop was entered.
RecordedSteps ==
    IF run_pc = "done" THEN run_result.steps
    ELSE IF loop # EmptyDict THEN loop.steps
    ELSE <<>>

StepsOfType(steps, type) == SelectSeq(steps, LAMBDA step : step.type = type)

RECURSIVE SumTokens(_)
SumTokens(calls) ==
    IF calls = <<>> THEN 0 ELSE Head(calls).total_tokens + SumTokens(Tail(calls))

RECURSIVE SumCosts(_)
SumCosts(calls) ==
    IF calls = <<>> THEN 0 ELSE Head(calls).cost + SumCosts(Tail(calls))

\* The agent's model and prompt exist and the input has a value for every
\* placeholder of the prompt.
Runnable(agent, input_data) ==
    /\ agent.model_id \in DOMAIN ModelTable
    /\ agent.prompt_id \in DOMAIN PromptTable
    /\ \A i \in 1..Len(PromptTable[agent.prompt_id].template) :
          "key" \in DOMAIN PromptTable[agent.prompt_id].template[i]
             => PromptTable[agent.prompt_id].template[i].key \in DOMAIN input_data

\* C7 (as stated): for every agent without tools and every input, the result
\* of execute_agent has exactly one step, of type llm_call.
C7_OneStepAlways ==
    (run_pc = "done" /\ run_agent.tools = <<>>)
       => /\ Len(run_result.steps) = 1
          /\ run_result.steps[1].type = "llm_call"

\* C7 (amended): for an agent without tools whose model and prompt exist, and
\* an input that fills every placeholder of the prompt, the result has exactly
\* one step, of type llm_call, for the one LLM call made, whether that call
\* succeeded or failed; otherwise the result is a failure with no step and no
\* LLM call was made.
C7_OneStepWhenRunnable ==
    (run_pc = "done" /\ run_agent.tools = <<>>)
       => IF Runnable(run_agent, run_input)
          THEN /\ Len(run_result.steps) = 1
               /\ run_result.steps[1].type = "llm_call"
               /\ Len(llm_calls) = 1
               /\ run_result.steps[1].success = llm_calls[1].success
               /\ run_result.success = llm_calls[1].success
          ELSE /\ run_result.steps = <<>>
               /\ ~run_result.success
               /\ llm_calls = <<>>

\* An agent without tools returned the one step of a failed LLM call.
C7_Witness ==
    /\ run_pc = "done" /\ run_agent.tools = <<>>
    /\ Len(run_result.steps) = 1
    /\ ~run_result.success
    /\ llm_calls[1].error = "backend unreachable"

\* out is the text after the first marker of response, without the
\* whitespace at its two ends.
IsTrimmedTextAfterMarker(out, response) ==
    \E k \in 1..Len(response) :
       /\ response[k] = "FINAL_ANSWER:"
       /\ \A j \in 1..(k - 1) : response[j] # "FINAL_ANSWER:"
       /\ \E a, b \in 0..(Len(response) - k) :
             /\ a + b <= Len(response) - k
             /\ \A j \in (k + 1)..(k + a) : response[j] \in Whitespace
             /\ \A j \in (Len(response) - b + 1)..Len(response) : response[j] \in Whitespace
             /\ out = SubSeq(response, k + a + 1, Len(response) - b)
             /\ out # <<>> => (out[1] \notin Whitespace /\ out[Len(out)] \notin Whitespace)

\* C8: for an agent with tools, the llm_call steps are as many as the LLM
\* calls (iterations) made, never more than max_iterations (5 by default); a
\* response with the final-answer marker is the last thing that happens: the
\* run has returned success with the trimmed text after the marker, and no
\* LLM call or tool call follows it.
C8_IterationsAndFinalAnswer ==
    run_agent.tools # <<>> =>
       /\ Len(StepsOfType(RecordedSteps, "llm_call")) = Len(llm_calls)
       /\ Len(StepsOfType(RecordedSteps, "tool_call")) = tool_calls
       /\ Len(llm_calls) <= max_iterations_of(run_agent)
       /\ max_iterations_of(run_agent) =
             IF "max_iterations" \in DOMAIN run_agent.parameters
             THEN run_agent.parameters.max_iterations ELSE 5
       /\ \A i \in 1..Len(llm_calls) :
             (llm_calls[i].success /\ Contains(llm_calls[i].response, "FINAL_ANSWER:"))
                => /\ i = Len(llm_calls)
                   /\ run_pc = "done"
                   /\ run_result.success
                   /\ IsTrimmedTextAfterMarker(run_result.output, llm_calls[i].response)
                   /\ run_result.iterations = i
                   /\ tool_calls =
                         Cardinality({j \in 1..(i - 1) :
                                        Contains(llm_calls[j].response, "TOOL_CALL:")})

\* A tool call in the first iteration, the final answer in the second.
C8_Witness ==
    /\ run_pc = "done" /\ run_agent.tools # <<>>
    /\ run_result.success
    /\ Len(llm_calls) = 2 /\ tool_calls = 1
    /\ llm_calls[2].response = FinalResponse
    /\ run_result.output = <<"42">>

\* C9 (as stated): a failed LLM call is the last call of the run and the
\* result carries its error; the 'exceeded' error is only reported after
\* max_iterations iterations without a final answer.
C9_LlmFailureReported ==
    (run_pc = "done" /\ run_agent.tools # <<>> /\ llm_calls # <<>>) =>
       /\ \A i \in 1..Len(llm_calls) : ~llm_calls[i].success => i = Len(llm_calls)
       /\ ~llm_calls[Len(llm_calls)].success =>
             /\ ~run_result.success
             /\ run_result.error = llm_calls[Len(llm_calls)].error
       /\ run_result.error = "Agent exceeded maximum iterations" =>
             /\ Len(llm_calls) = max_iterations_of(run_agent)
             /\ \A i \in 1..Len(llm_calls) : llm_calls[i].success

\* C10: when an agent with tools has made max_iterations LLM calls and none
\* gave a final answer, the result is a failure that holds every step
\* recorded (one llm_call step per call, in order, and one tool_call step per
\* tool call), and its total_tokens and total_cost are the sums over all LLM
\* calls made.
C10_LimitReturnsTotals ==
    (/\ run_pc = "done" /\ run_agent.tools # <<>>
     /\ Runnable(run_agent, run_input)
     /\ Len(llm_calls) = max_iterations_of(run_agent)
     /\ \A i \in 1..Len(llm_calls) :
           ~(llm_calls[i].success /\ Contains(llm_calls[i].response, "FINAL_ANSWER:")))
       => /\ ~run_result.success
          /\ run_result.error = "Agent exceeded maximum iterations"
          /\ Len(run_result.steps) = Len(llm_calls) + tool_calls
          /\ LET llm_steps == StepsOfType(run_result.steps, "llm_call")
             IN /\ Len(llm_steps) = Len(llm_calls)
                /\ \A i \in 1..Len(llm_steps) :
                      /\ llm_steps[i].iteration = i
                      /\ llm_steps[i].tokens = llm_calls[i].total_tokens
                      /\ llm_steps[i].cost = llm_calls[i].cost
                      /\ llm_steps[i].success = llm_calls[i].success
          /\ Len(StepsOfType(run_result.steps, "tool_call")) = tool_calls
          /\ run_result.total_tokens = SumTokens(llm_calls)
          /\ run_result.total_cost = SumCosts(llm_calls)

\* Two iterations of two allowed, each with a tool call and a different
\* token count, and no final answer.
C10_Witness ==
    /\ run_pc = "done" /\ run_agent.tools # <<>>
    /\ max_iterations_of(run_agent) = 2
    /\ Len(llm_calls) = 2 /\ tool_calls = 2
    /\ llm_calls[1].total_tokens = 13 /\ llm_calls[2].total_tokens = 75
    /\ run_result.total_tokens = 88
    /\ run_result.total_cost > llm_calls[2].cost
    /\ run_result.error = "Agent exceeded maximum iterations"

(* ------------------------------------------------------------------ *)
(* The parsing of _execute_tool_call on directives name(k1=v1, k2=v2)   *)
(* ------------------------------------------------------------------ *)

\* At most this many key=value pairs in a directive.
MaxParams == 2

ParamKeys == {"query", "max_results"}
ParamValues == {"cats", "3"}
QuoteMarks == {<<>>, <<"\"">>, <<"'">>}
Paddings == {<<>>, <<" ">>}

\* One key=value pair as written: the key, the value, the quote mark around
\* the value and the blanks before the key and after the value.
WrittenParams ==
    [key : ParamKeys, value : ParamValues, quote : QuoteMarks,
     before : Paddings, after : Paddings]

\* The directives: a tool name, a blank or none before "(", and up to MaxParams
\* pairs with different keys.
Directives ==
    {d \in [name : {"search", "web_search"}, gap : Paddings,
            params : UNION {[1..n -> WrittenParams] : n \in 0..MaxParams}] :
        \A i, j \in 1..Len(d.params) : i # j => d.params[i].key # d.params[j].key}

WrittenParam(p) ==
    p.before \o <<p.key, "=">> \o p.quote \o <<p.value>> \o p.quote \o p.after

RECURSIVE WrittenParamList(_)
WrittenParamList(params) ==
    IF params = <<>> THEN <<>>
    ELSE IF Len(params) = 1 THEN WrittenParam(params[1])
    ELSE WrittenParam(params[1]) \o <<",">> \o WrittenParamList(Tail(params))

\* The text of directive d, as the model's response carries it after TOOL_CALL:.
DirectiveText(d) ==
    <<d.name>> \o d.gap \o <<"(">> \o WrittenParamList(d.params) \o <<")">>

InitParse ==
    /\ CoordInit
    /\ llm_client = TRUE
    /\ AgentIdle
    /\ SqlIdle
    /\ WorkflowIdle
    /\ directive \in Directives
    /\ parsed = EmptyDict

\* _execute_tool_call up to the call of execute_tool: tool_name and params.
ParseToolCall ==
    /\ parsed = EmptyDict
    /\ parsed' = [tool_name |-> ParseToolName(DirectiveText(directive)),
                  params |-> ParseToolParams(DirectiveText(directive))]
    /\ UNCHANGED <<coordVars, llm_client, agentVars, sqlVars, workflowVars, directive>>

NextParse == ParseToolCall

SpecParse == InitParse /\ [][NextParse]_vars

\* C11: a directive name(k1=v1, k2=v2) is parsed into the tool name and a
\* flat mapping from each key to its value as a string, without the blanks
\* and quote marks around it; search(query=cats, max_results=3) gives
\* {query: "cats", max_results: "3"}.
C11_ParsesKeyValuePairs ==
    parsed # EmptyDict =>
       /\ parsed.tool_name = <<directive.name>>
       /\ DOMAIN parsed.params =
             {<<directive.params[i].key>> : i \in 1..Len(directive.params)}
       /\ \A i \in 1..Len(directive.params) :
             parsed.params[<<directive.params[i].key>>] = <<directive.params[i].value>>
       /\ DirectiveText(directive) =
             <<"search", "(", "query", "=", "cats", ",", " ", "max_results", "=", "3", ")">>
          => parsed.params = (<<"query">> :> <<"cats">>) @@ (<<"max_results">> :> <<"3">>)

\* search(query=cats, max_results=3) has been parsed.
C11_Witness ==
    /\ DirectiveText(directive) =
          <<"search", "(", "query", "=", "cats", ",", " ", "max_results", "=", "3", ")">>
    /\ parsed # EmptyDict
    /\ parsed.tool_name = <<"search">>
    /\ DOMAIN parsed.params = {<<"query">>, <<"max_results">>}

(* ------------------------------------------------------------------ *)
(* One call of WorkflowService.execute_workflow                         *)
(* ------------------------------------------------------------------ *)

WorkflowRows == {WorkflowTable[i] : i \in DOMAIN WorkflowTable}

\* What the LLM backend answers to the agents of the run.
WorkflowScripts ==
    {<<[llm |-> answer, body |-> [raises |-> FALSE, output |-> <<"value">>]]>> :
        answer \in BackendAnswers}

InitWorkflow ==
    /\ CoordInit
    /\ llm_client \in BOOLEAN
    /\ AgentIdle
    /\ ToolIdle
    /\ SqlIdle
    /\ wf_call \in [workflow : WorkflowRows, input_data : InputPayloads,
                    script : WorkflowScripts]
    /\ wf_result = EmptyDict
    /\ wf_trace = EmptyDict

\* execute_workflow from its call to its return.
RunWorkflow ==
    /\ wf_result = EmptyDict
    /\ wf_result' = execute_workflow(wf_call.workflow, wf_call.input_data, llm_client,
                                     wf_call.script)
    /\ wf_trace' = IF GraphRaises(wf_call.workflow) THEN WorkflowEnter
                   ELSE WorkflowTraversal(WorkflowContext(wf_call.workflow,
                                                          wf_call.input_data,
                                                          llm_client, wf_call.script))
    /\ UNCHANGED <<coordVars, llm_client, agentVars, toolVars, sqlVars, wf_call>>

NextWorkflow == RunWorkflow

SpecWorkflow == InitWorkflow /\ [][NextWorkflow]_vars

\* The run of the agent of node i of the called workflow succeeds on the
\* input the start node passes on.
AgentOfNodeSucceeds(i) ==
    /\ wf_call.workflow.nodes[i].node_type = "agent"
    /\ wf_call.workflow.nodes[i].configuration.agent_id \in DOMAIN AgentTable
    /\ execute_agent(AgentTable[wf_call.workflow.nodes[i].configuration.agent_id],
                     wf_call.input_data, llm_client, wf_call.script).success

\* The called workflow is start -> agent node -> end.
IsStartAgentEnd ==
    /\ Len(wf_call.workflow.nodes) = 3
    /\ [i \in 1..3 |-> wf_call.workflow.nodes[i].node_type] = <<"start", "agent", "end">>
    /\ Len(wf_call.workflow.connections) = 2
    /\ \A i \in 1..2 :
          /\ wf_call.workflow.connections[i].source_node_id =
                wf_call.workflow.nodes[i].node_id
          /\ wf_call.workflow.connections[i].target_node_id =
                wf_call.workflow.nodes[i + 1].node_id

\* C12 (as stated): a run of start -> agent node -> end whose agent succeeds
\* is a success with the three steps start, agent, end in that order, and the
\* output of the end node is the agent's output.
C12_StartAgentEndSucceeds ==
    (wf_result # EmptyDict /\ IsStartAgentEnd /\ AgentOfNodeSucceeds(2))
       => /\ wf_result.success
          /\ [i \in 1..Len(wf_result.steps) |-> wf_result.steps[i].node_type] =
                <<"start", "agent", "end">>
          /\ \A i \in 1..Len(wf_result.steps) : wf_result.steps[i].success
          /\ \E v \in {wf_result.output.dict[k] : k \in DOMAIN wf_result.output.dict} :
                \E w \in {v.dict[k] : k \in DOMAIN v.dict} :
                   w = execute_agent(
                          AgentTable[wf_call.workflow.nodes[2].configuration.agent_id],
                          wf_call.input_data, llm_client, wf_call.script).output

\* Some step of the traversal is the step of a failed node.
NodeFailed ==
    \E i \in 1..Len(wf_trace.steps) : ~wf_trace.steps[i].success

\* C13 (as stated): when a node failed, the result of execute_workflow is a
\* failure that holds the steps recorded up to the fault, the failed node's
\* step among them, and the cost accumulated so far.
C13_FailureKeepsSteps ==
    (wf_result # EmptyDict /\ NodeFailed)
       => /\ ~wf_result.success
          /\ wf_result.steps = wf_trace.steps
          /\ "total_cost" \in DOMAIN wf_result

(* ------------------------------------------------------------------ *)
(* SQL gateway: the query text and its validation                       *)
(* ------------------------------------------------------------------ *)

read_only_commands == {"SELECT", "SHOW", "DESCRIBE", "DESC", "EXPLAIN", "PRAGMA"}

write_commands == {"INSERT", "UPDATE", "DELETE", "REPLACE"}

ddl_commands == {"CREATE", "ALTER", "DROP", "TRUNCATE", "RENAME"}

dangerous_commands == {"DROP", "TRUNCATE", "DELETE", "ALTER"}

\* str.upper() on the tokens that are written with lower-case letters.
UpperOf ==
    ("select" :> "SELECT") @@ ("from" :> "FROM") @@ ("drop" :> "DROP") @@
    ("table" :> "TABLE") @@ ("t" :> "T") @@ ("u" :> "U") @@ ("x" :> "X") @@
    ("note" :> "NOTE") @@ ("count_subquery" :> "COUNT_SUBQUERY")

UpperToken(tok) == IF tok \in DOMAIN UpperOf THEN UpperOf[tok] ELSE tok

Upper(s) == [i \in DOMAIN s |-> UpperToken(s[i])]

\* s.split()[0]: the first run of tokens that are not whitespace.
FirstWord(s) ==
    LET t == LStrip(s, Whitespace)
        stops == {i \in 1..Len(t) : t[i] \in Whitespace}
    IN  IF stops = {} THEN t
        ELSE SubSeq(t, 1, (CHOOSE i \in stops : \A j \in stops : i <= j) - 1)

\* ' '.join(s.split()): each run of whitespace becomes one blank, none is
\* left at either end.
RECURSIVE NormalizeWhitespace(_)
NormalizeWhitespace(s) ==
    LET t == LStrip(s, Whitespace)
        w == FirstWord(t)
        rest == LStrip(SubSeq(t, Len(w) + 1, Len(t)), Whitespace)
    IN  IF t = <<>> THEN <<>>
        ELSE IF rest = <<>> THEN w
        ELSE w \o <<" ">> \o NormalizeWhitespace(rest)

AllIn(s, i, j, chars) == \A k \in i..j : s[k] \in chars

\* No token of s[i..j] is a line break (what . matches).
OneLine(s, i, j) == \A k \in i..j : s[k] # "\n"

\* Where tok stands in s.
Positions(s, tok) == {i \in 1..Len(s) : s[i] = tok}

\* re.search of each injection pattern in s (s is upper case already).
\*   ;\s*DROP\s+
StackedDrop(s) ==
    \E i \in Positions(s, ";") : \E j \in Positions(s, "DROP") :
       /\ i < j /\ j < Len(s)
       /\ AllIn(s, i + 1, j - 1, Whitespace)
       /\ s[j + 1] \in Whitespace

\*   ;\s*DELETE\s+FROM\s+
StackedDelete(s) ==
    \E i \in Positions(s, ";") : \E j \in Positions(s, "DELETE") :
       \E k \in Positions(s, "FROM") :
          /\ i < j /\ j + 1 < k /\ k < Len(s)
          /\ AllIn(s, i + 1, j - 1, Whitespace)
          /\ AllIn(s, j + 1, k - 1, Whitespace)
          /\ s[k + 1] \in Whitespace

\*   ;\s*UPDATE\s+.*\s+SET\s+
StackedUpdate(s) ==
    \E i \in Positions(s, ";") : \E j \in Positions(s, "UPDATE") :
       \E k \in Positions(s, "SET") :
          /\ i < j /\ j < k /\ k < Len(s)
          /\ AllIn(s, i + 1, j - 1, Whitespace)
          /\ s[k + 1] \in Whitespace
          /\ \E a, b \in (j + 1)..(k - 1) :
                /\ a < b
                /\ AllIn(s, j + 1, a, Whitespace)
                /\ OneLine(s, a + 1, b - 1)
                /\ AllIn(s, b, k - 1, Whitespace)

\*   --\s*$
TrailingLineComment(s) ==
    \E i \in Positions(s, "--") : AllIn(s, i + 1, Len(s), Whitespace)

\*   /\*.*\*/
BlockComment(s) ==
    \E i \in Positions(s, "/*") : \E j \in Positions(s, "*/") :
       i < j /\ OneLine(s, i + 1, j - 1)

\*   UNION\s+.*SELECT
UnionSelect(s) ==
    \E i \in Positions(s, "UNION") : \E j \in Positions(s, "SELECT") :
       \E a \in (i + 1)..(j - 1) :
          AllIn(s, i + 1, a, Whitespace) /\ OneLine(s, a + 1, j - 1)

\*   EXEC\s*\(
ExecCall(s) ==
    \E i \in Positions(s, "EXEC") : \E j \in Positions(s, "(") :
       i < j /\ AllIn(s, i + 1, j - 1, Whitespace)

\*   xp_\w+   and   sp_\w+
ExtendedProcedures == {"XP_CMDSHELL"}

StoredProcedures == {"SP_HELP"}

XpName(s) == \E i \in 1..Len(s) : s[i] \in ExtendedProcedures

SpName(s) == \E i \in 1..Len(s) : s[i] \in StoredProcedures

\* The patterns in the order of the list, each under the text it is
\* reported with.
injection_patterns(s) ==
    <<[pattern |-> ";\\s*DROP\\s+", found |-> StackedDrop(s)],
      [pattern |-> ";\\s*DELETE\\s+FROM\\s+", found |-> StackedDelete(s)],
      [pattern |-> ";\\s*UPDATE\\s+.*\\s+SET\\s+", found |-> StackedUpdate(s)],
      [pattern |-> "--\\s*$", found |-> TrailingLineComment(s)],
      [pattern |-> "/\\*.*\\*/", found |-> BlockComment(s)],
      [pattern |-> "UNION\\s+.*SELECT", found |-> UnionSelect(s)],
      [pattern |-> "EXEC\\s*\\(", found |-> ExecCall(s)],
      [pattern |-> "xp_\\w+", found |-> XpName(s)],
      [pattern |-> "sp_\\w+", found |-> SpName(s)]>>

AnyInjectionPattern(s) ==
    \E p \in 1..Len(injection_patterns(s)) : injection_patterns(s)[p].found

FirstInjectionPattern(s) ==
    LET ps == injection_patterns(s)
        hits == {p \in 1..Len(ps) : ps[p].found}
    IN  ps[CHOOSE p \in hits : \A q \in hits : p <= q].pattern

\* validate_query, from clean_query on: the patterns, then the first word.
ValidateClean(clean_query, first_word) ==
    LET command == IF Len(first_word) = 1 THEN first_word[1] ELSE "<other>"
    IN  IF clean_query = <<>>
        THEN [is_valid |-> FALSE, command_type |-> "", error |-> <<"Empty query">>]
        ELSE IF AnyInjectionPattern(clean_query)
        THEN [is_valid |-> FALSE, command_type |-> "",
              error |-> <<"Potentially dangerous pattern detected: ",
                          FirstInjectionPattern(clean_query)>>]
        ELSE IF command \in read_only_commands
        THEN [is_valid |-> TRUE, command_type |-> "READ", error |-> <<>>]
        ELSE IF command \in write_commands
        THEN [is_valid |-> TRUE, command_type |-> "WRITE", error |-> <<>>]
        ELSE IF command \in ddl_commands
        THEN IF command \in dangerous_commands
             THEN [is_valid |-> FALSE, command_type |-> "DANGEROUS",
                   error |-> <<"Dangerous command: ">> \o first_word]
             ELSE [is_valid |-> TRUE, command_type |-> "DDL", error |-> <<>>]
        ELSE [is_valid |-> FALSE, command_type |-> "UNKNOWN",
              error |-> <<"Unknown or unsupported command: ">> \o first_word]

\* validate_query: (is_valid, command_type, error_message).
validate_query(query) ==
    TheValue({ValidateClean(clean_query, FirstWord(clean_query)) :
                 clean_query \in {Upper(Strip(query))}})

\* re.sub(r'--.*$', '', s, flags=MULTILINE): each line comment goes, up to
\* the line break that ends it.
RECURSIVE RemoveLineComments(_)
RemoveLineComments(s) ==
    IF s = <<>> THEN <<>>
    ELSE IF Head(s) = "--"
    THEN IF Contains(s, "\n")
         THEN RemoveLineComments(SubSeq(s, FirstIndex(s, "\n"), Len(s)))
         ELSE <<>>
    ELSE <<Head(s)>> \o RemoveLineComments(Tail(s))

\* re.sub(r'/\*.*?\*/', '', s, flags=DOTALL): each block comment goes, up to
\* the nearest closing mark.
RECURSIVE RemoveBlockComments(_)
RemoveBlockComments(s) ==
    IF s = <<>> THEN <<>>
    ELSE IF Head(s) = "/*" /\ Contains(Tail(s), "*/")
    THEN RemoveBlockComments(AfterFirst(Tail(s), "*/"))
    ELSE <<Head(s)>> \o RemoveBlockComments(Tail(s))

\* analyze_query: the classification of a query and its estimated risk.
analyze_query(query) ==
    LET query_clean ==
            NormalizeWhitespace(
                RemoveBlockComments(RemoveLineComments(Upper(Strip(query)))))
        first_word == FirstWord(query_clean)
        command == IF Len(first_word) = 1 THEN first_word[1] ELSE "<other>"
        is_dangerous == command \in dangerous_commands
        is_ddl == command \in ddl_commands
        is_multi_statement == Contains(RStrip(query, {";"}), ";")
        risk1 == IF is_dangerous THEN "HIGH" ELSE "LOW"
        risk2 == IF is_ddl THEN (IF risk1 = "LOW" THEN "MEDIUM" ELSE "HIGH") ELSE risk1
        risk3 == IF is_multi_statement THEN "HIGH" ELSE risk2
    IN  [command |-> first_word,
         is_read_only |-> command \in read_only_commands,
         is_write |-> command \in write_commands,
         is_ddl |-> is_ddl,
         is_dangerous |-> is_dangerous,
         is_multi_statement |-> is_multi_statement,
         estimated_risk |-> IF AnyInjectionPattern(query_clean) THEN "CRITICAL"
                            ELSE risk3]

(* ------------------------------------------------------------------ *)
(* SQL gateway: the SQLite driver (cursor.execute on one connection)    *)
(* ------------------------------------------------------------------ *)

\* The numerals the queries are written with, and str(n) of an int.
NumberOf ==
    ("0" :> 0) @@ ("1" :> 1) @@ ("2" :> 2) @@ ("3" :> 3) @@ ("4" :> 4) @@
    ("5" :> 5) @@ ("6" :> 6) @@ ("7" :> 7) @@ ("8" :> 8) @@ ("9" :> 9)

\* (An int that has no numeral above is written "<number>".)
NumberText(n) ==
    IF \E t \in DOMAIN NumberOf : NumberOf[t] = n
    THEN CHOOSE t \in DOMAIN NumberOf : NumberOf[t] = n
    ELSE "<number>"

\* The tokens SQLite reads: no whitespace, no line comment (up to the end of
\* its line), no block comment.
RECURSIVE SqlTokens(_)
SqlTokens(s) ==
    IF s = <<>> THEN <<>>
    ELSE IF Head(s) \in Whitespace THEN SqlTokens(Tail(s))
    ELSE IF Head(s) = "--"
    THEN IF Contains(s, "\n") THEN SqlTokens(AfterFirst(s, "\n")) ELSE <<>>
    ELSE IF Head(s) = "/*"
    THEN IF Contains(s, "*/") THEN SqlTokens(AfterFirst(s, "*/")) ELSE <<>>
    ELSE <<UpperToken(Head(s))>> \o SqlTokens(Tail(s))

\* Names are case-insensitive: the table of the file a name denotes.
TablesNamed(db, name) == {k \in DOMAIN db : UpperToken(k) = name}

TableNames == {"T", "U"}

\* [WHERE X = n [OR 1=1 | AND 1=1]]: how many tokens the clause takes (-1:
\* not a clause) and the rows it keeps.
WhereLength(toks) ==
    IF toks = <<>> \/ toks[1] # "WHERE" THEN 0
    ELSE IF Len(toks) >= 4 /\ toks[2] = "X" /\ toks[3] = "="
            /\ toks[4] \in DOMAIN NumberOf
    THEN IF Len(toks) >= 6 /\ toks[5] \in {"OR", "AND"} /\ toks[6] = "1=1"
         THEN 6 ELSE 4
    ELSE -1

WhereKeeps(toks, row) ==
    CASE WhereLength(toks) = 0 -> TRUE
      [] WhereLength(toks) = 4 -> row.x = NumberOf[toks[4]]
      [] WhereLength(toks) = 6 ->
            IF toks[5] = "OR" THEN TRUE ELSE row.x = NumberOf[toks[4]]
      [] OTHER -> FALSE

\* [LIMIT n [OFFSET m]]: the clause must take all the tokens that are left.
LimitClauseOk(toks) ==
    \/ toks = <<>>
    \/ Len(toks) = 2 /\ toks[1] = "LIMIT" /\ toks[2] \in DOMAIN NumberOf
    \/ /\ Len(toks) = 4 /\ toks[1] = "LIMIT" /\ toks[2] \in DOMAIN NumberOf
       /\ toks[3] = "OFFSET" /\ toks[4] \in DOMAIN NumberOf

Keep(rows, toks) == SelectSeq(rows, LAMBDA row : WhereKeeps(toks, row))

Window(rows, toks) ==
    LET offset == IF Len(toks) = 4 THEN NumberOf[toks[4]] ELSE 0
        limit == IF toks = <<>> THEN Len(rows) ELSE NumberOf[toks[2]]
    IN  SubSeq(rows, offset + 1,
               IF offset + limit < Len(rows) THEN offset + limit ELSE Len(rows))

\* SELECT * FROM name [WHERE ...] [LIMIT ...]
IsSelect(toks) ==
    /\ Len(toks) >= 4
    /\ SubSeq(toks, 1, 3) = <<"SELECT", "*", "FROM">>
    /\ toks[4] \in TableNames
    /\ WhereLength(SubSeq(toks, 5, Len(toks))) >= 0
    /\ LimitClauseOk(SubSeq(toks, 5 + WhereLength(SubSeq(toks, 5, Len(toks))),
                            Len(toks)))

SelectRows(db, toks) ==
    LET rest == SubSeq(toks, 5, Len(toks))
        table == db[TheValue(TablesNamed(db, toks[4]))]
    IN  Window(Keep(table, rest),
               SubSeq(rest, WhereLength(rest) + 1, Len(rest)))

\* SELECT COUNT(*) FROM ( select ) AS name
CountPrefix == <<"SELECT", "COUNT", "(", "*", ")", "FROM", "(">>

IsCount(toks) ==
    /\ Len(toks) >= Len(CountPrefix) + 3
    /\ SubSeq(toks, 1, Len(CountPrefix)) = CountPrefix
    /\ SubSeq(toks, Len(toks) - 2, Len(toks)) = <<")", "AS", "COUNT_SUBQUERY">>
    /\ IsSelect(SubSeq(toks, Len(CountPrefix) + 1, Len(toks) - 3))

CountedSelect(toks) == SubSeq(toks, Len(CountPrefix) + 1, Len(toks) - 3)

IsInsert(toks) ==
    /\ Len(toks) = 7
    /\ SubSeq(toks, 1, 2) = <<"INSERT", "INTO">> /\ toks[3] \in TableNames
    /\ SubSeq(toks, 4, 5) = <<"VALUES", "(">> /\ toks[6] \in DOMAIN NumberOf
    /\ toks[7] = ")"

IsDelete(toks) ==
    /\ Len(toks) >= 3
    /\ SubSeq(toks, 1, 2) = <<"DELETE", "FROM">> /\ toks[3] \in TableNames
    /\ WhereLength(SubSeq(toks, 4, Len(toks))) = Len(toks) - 3

IsUpdate(toks) ==
    /\ Len(toks) >= 6
    /\ toks[1] = "UPDATE" /\ toks[2] \in TableNames
    /\ SubSeq(toks, 3, 5) = <<"SET", "X", "=">> /\ toks[6] \in DOMAIN NumberOf
    /\ WhereLength(SubSeq(toks, 7, Len(toks))) = Len(toks) - 6

IsDropTable(toks) ==
    Len(toks) = 3 /\ SubSeq(toks, 1, 2) = <<"DROP", "TABLE">> /\ toks[3] \in TableNames

IsCreateTable(toks) ==
    /\ Len(toks) = 6
    /\ SubSeq(toks, 1, 2) = <<"CREATE", "TABLE">> /\ toks[3] \in TableNames
    /\ SubSeq(toks, 4, 6) = <<"(", "X", ")">>

IsRenameTable(toks) ==
    /\ Len(toks) = 6
    /\ SubSeq(toks, 1, 2) = <<"ALTER", "TABLE">> /\ toks[3] \in TableNames
    /\ SubSeq(toks, 4, 5) = <<"RENAME", "TO">> /\ toks[6] \in TableNames

\* PRAGMA name, for a name SQLite has no pragma of: no rows, no columns.
IsPragma(toks) == Len(toks) = 2 /\ toks[1] = "PRAGMA" /\ toks[2] = "NOTE"

\* The table a statement reads or changes.
StatementTable(toks) ==
    CASE IsSelect(toks) -> toks[4]
      [] IsCount(toks) -> CountedSelect(toks)[4]
      [] IsUpdate(toks) -> toks[2]
      [] OTHER -> toks[3]

IsStatement(toks) ==
    \/ IsSelect(toks) \/ IsCount(toks) \/ IsInsert(toks) \/ IsDelete(toks)
    \/ IsUpdate(toks) \/ IsDropTable(toks) \/ IsCreateTable(toks)
    \/ IsRenameTable(toks) \/ IsPragma(toks)

\* The key a table is stored under in the file: the name in lower case.
StoredName ==
    ("T" :> "t") @@ ("U" :> "u")

Without(db, k) == [j \in DOMAIN db \ {k} |-> db[j]]

DriverError(db, message) ==
    [raised |-> TRUE, message |-> message, rows |-> <<>>, columns |-> <<>>,
     rowcount |-> -1, database |-> db]

DriverRows(db, rows) ==
    [raised |-> FALSE, message |-> <<>>, rows |-> rows, columns |-> <<"x">>,
     rowcount |-> -1, database |-> db]

DriverChange(db, rowcount) ==
    [raised |-> FALSE, message |-> <<>>, rows |-> <<>>, columns |-> <<>>,
     rowcount |-> rowcount, database |-> db]

\* One statement on a file in which its table exists (or, for CREATE, does
\* not).
RunStatement(db, toks) ==
    LET k == StoredName[StatementTable(toks)]
    IN  CASE IsSelect(toks) -> DriverRows(db, SelectRows(db, toks))
          [] IsCount(toks) ->
                DriverRows(db, <<[x |-> Len(SelectRows(db, CountedSelect(toks)))]>>)
          [] IsInsert(toks) ->
                DriverChange([db EXCEPT ![k] = @ \o <<[x |-> NumberOf[toks[6]]]>>], 1)
          [] IsDelete(toks) ->
                DriverChange(
                    [db EXCEPT ![k] = SelectSeq(@, LAMBDA row :
                                          ~WhereKeeps(SubSeq(toks, 4, Len(toks)), row))],
                    Len(Keep(db[k], SubSeq(toks, 4, Len(toks)))))
          [] IsUpdate(toks) ->
                DriverChange(
                    [db EXCEPT ![k] =
                        [i \in DOMAIN @ |->
                            IF WhereKeeps(SubSeq(toks, 7, Len(toks)), @[i])
                            THEN [x |-> NumberOf[toks[6]]] ELSE @[i]]],
                    Len(Keep(db[k], SubSeq(toks, 7, Len(toks)))))
          [] IsDropTable(toks) -> DriverChange(Without(db, k), -1)
          [] IsCreateTable(toks) -> DriverChange(db @@ (k :> <<>>), -1)
          [] IsRenameTable(toks) ->
                IF StoredName[toks[6]] \in DOMAIN db
                THEN DriverError(db, <<"there is already another table: ", toks[6]>>)
                ELSE DriverChange(Without(db, k) @@ (StoredName[toks[6]] :> db[k]), -1)

\* A statement is prepared (syntax, then names), text after it is refused
\* before anything runs, then the statement runs.
PrepareAndRun(db, statement, more) ==
    IF statement = <<>> THEN DriverChange(db, -1)
    ELSE IF ~IsStatement(statement)
    THEN DriverError(db, <<"syntax error">>)
    ELSE IF IsPragma(statement)
    THEN IF more
         THEN DriverError(db, <<"You can only execute one statement at a time.">>)
         ELSE [DriverRows(db, <<>>) EXCEPT !.columns = <<>>]
    ELSE IF IsCreateTable(statement)
    THEN IF TablesNamed(db, statement[3]) # {}
         THEN DriverError(db, <<"table already exists: ", statement[3]>>)
         ELSE IF more
         THEN DriverError(db, <<"You can only execute one statement at a time.">>)
         ELSE RunStatement(db, statement)
    ELSE IF TablesNamed(db, StatementTable(statement)) = {}
    THEN DriverError(db, <<"no such table: ", StatementTable(statement)>>)
    ELSE IF more
    THEN DriverError(db, <<"You can only execute one statement at a time.">>)
    ELSE RunStatement(db, statement)

\* cursor.execute(text): the first statement of the text, and whether text
\* follows it.
sqlite_execute(db, text) ==
    TheValue({
        TheValue({PrepareAndRun(db, statement,
                                Contains(toks, ";") /\ AfterFirst(toks, ";") # <<>>) :
                     statement \in {BeforeFirst(toks, ";")}}) :
        toks \in {SqlTokens(text)}})

(* ------------------------------------------------------------------ *)
(* SQL gateway: execute_query and the admin endpoint                    *)
(* ------------------------------------------------------------------ *)

\* query.upper().strip().startswith('SELECT')
StartsWithSelect(query) ==
    Upper(Strip(query)) # <<>> /\ Upper(Strip(query))[1] = "SELECT"

\* f"SELECT COUNT(*) FROM ({query}) AS count_subquery"
CountQuery(query) ==
    <<"SELECT", " ", "COUNT", "(", "*", ")", " ", "FROM", " ", "(">> \o query \o
    <<")", " ", "AS", " ", "count_subquery">>

\* f"{query} LIMIT {page_size} OFFSET {offset}"
PaginatedQuery(query, page, page_size) ==
    query \o <<" ", "LIMIT", " ", NumberText(page_size), " ", "OFFSET", " ",
               NumberText((page - 1) * page_size)>>

\* One entry of the history: a text handed to cursor.execute, whether it
\* raised, and whether conn.commit() followed it.
Ran(text, raised, committed) ==
    [statement |-> text, raised |-> raised, committed |-> committed]

Refusal(error, command_type) ==
    ("success" :> FALSE) @@ ("error" :> error) @@ ("query_type" :> command_type)

Answer(result, db, statements) ==
    [result |-> result, database |-> db, statements |-> statements]

\* The read branch for a SELECT once the count and the query with LIMIT
\* and OFFSET appended went through the driver.
ReadSelectResult(db, query, page, page_size, count, paginated) ==
    LET total_rows == count.rows[1].x
    IN  IF count.raised
        THEN Answer(Refusal(<<"Database error: ">> \o count.message, "READ"), db,
                    <<Ran(CountQuery(query), TRUE, FALSE)>>)
        ELSE IF paginated.raised
        THEN Answer(Refusal(<<"Database error: ">> \o paginated.message, "READ"), db,
                    <<Ran(CountQuery(query), FALSE, FALSE),
                      Ran(PaginatedQuery(query, page, page_size), TRUE, FALSE)>>)
        ELSE IF page_size = 0
        THEN Answer(Refusal(<<"Execution error: ",
                              "integer division or modulo by zero">>, "READ"), db,
                    <<Ran(CountQuery(query), FALSE, FALSE),
                      Ran(PaginatedQuery(query, page, page_size), FALSE, FALSE)>>)
        ELSE Answer(("success" :> TRUE) @@ ("data" :> paginated.rows) @@
                    ("columns" :> paginated.columns) @@
                    ("total_rows" :> total_rows) @@ ("page" :> page) @@
                    ("page_size" :> page_size) @@
                    ("total_pages" :> (total_rows + page_size - 1) \div page_size) @@
                    ("query_type" :> "READ"),
                    db,
                    <<Ran(CountQuery(query), FALSE, FALSE),
                      Ran(PaginatedQuery(query, page, page_size), FALSE, FALSE)>>)

\* The read branch for a SELECT: the count, then the query with LIMIT and
\* OFFSET appended.
ReadSelect(db, query, page, page_size) ==
    TheValue({ReadSelectResult(db, query, page, page_size, count, paginated) :
                 count \in {sqlite_execute(db, CountQuery(query))},
                 paginated \in {sqlite_execute(db, PaginatedQuery(query, page,
                                                                  page_size))}})

\* The read branch for the other read commands once the query went
\* through the driver.
ReadOtherResult(db, query, page, page_size, read) ==
    IF read.raised
    THEN Answer(Refusal(<<"Database error: ">> \o read.message, "READ"), db,
                <<Ran(query, TRUE, FALSE)>>)
    ELSE Answer(("success" :> TRUE) @@ ("data" :> read.rows) @@
                ("columns" :> read.columns) @@
                ("total_rows" :> Len(read.rows)) @@ ("page" :> page) @@
                ("page_size" :> page_size) @@ ("total_pages" :> 1) @@
                ("query_type" :> "READ"),
                db, <<Ran(query, FALSE, FALSE)>>)

\* The read branch for the other read commands.
ReadOther(db, query, page, page_size) ==
    TheValue({ReadOtherResult(db, query, page, page_size, read) :
                 read \in {sqlite_execute(db, query)}})

\* Variant: the except branch of get_connection does not roll back, what
\* the statement changed stays in the file.
RolledBack_keeps_changes(db, write) == write.database

\* get_connection, except branch: conn.rollback() before the exception goes
\* on to execute_query; the file is as it was when the connection opened.
RolledBack(db, write) == db

\* The write branch once the statement went through the driver.
WriteResult(db, query, command_type, write) ==
    IF write.raised
    THEN Answer(Refusal(<<"Database error: ">> \o write.message, command_type),
                RolledBack(db, write), <<Ran(query, TRUE, FALSE)>>)
    ELSE Answer(("success" :> TRUE) @@
                ("message" :> <<"Query executed successfully. Rows affected: ",
                                NumberText(write.rowcount)>>) @@
                ("rows_affected" :> write.rowcount) @@
                ("query_type" :> command_type),
                write.database, <<Ran(query, FALSE, TRUE)>>)

\* The write branch: the statement, then conn.commit(); a statement that
\* raises is rolled back.
WriteAndCommit(db, query, command_type) ==
    TheValue({WriteResult(db, query, command_type, write) :
                 write \in {sqlite_execute(db, query)}})

\* Variant: the flag is read the other way round and before the validity
\* test: a call that sets it has everything but reads blocked.
Validated_flag_blocks(db, query, page, page_size, allow_dangerous, v) ==
    IF ~v.is_valid \/ (v.command_type # "READ" /\ allow_dangerous)
    THEN IF allow_dangerous
         THEN Answer(Refusal(<<"Dangerous operation blocked: ">> \o v.error,
                             v.command_type), db, <<>>)
         ELSE Answer(Refusal(v.error, v.command_type), db, <<>>)
    ELSE IF v.command_type = "READ"
    THEN IF StartsWithSelect(query)
         THEN ReadSelect(db, query, page, page_size)
         ELSE ReadOther(db, query, page, page_size)
    ELSE WriteAndCommit(db, query, v.command_type)

\* execute_query after validate_query returned v.
Validated(db, query, page, page_size, allow_dangerous, v) ==
    IF ~v.is_valid
    THEN IF v.command_type = "DANGEROUS" /\ ~allow_dangerous
         THEN Answer(Refusal(<<"Dangerous operation blocked: ">> \o v.error,
                             v.command_type), db, <<>>)
         ELSE Answer(Refusal(v.error, v.command_type), db, <<>>)
    ELSE IF v.command_type = "READ"
    THEN IF StartsWithSelect(query)
         THEN ReadSelect(db, query, page, page_size)
         ELSE ReadOther(db, query, page, page_size)
    ELSE WriteAndCommit(db, query, v.command_type)

\* The write branch when the statement ran and conn.commit() raises: the
\* sqlite3.Error passes through get_connection and is answered as a
\* database error.
CommitRaises(db, query, command_type) ==
    TheValue({Answer(Refusal(<<"Database error: ", "commit failed">>, command_type),
                     RolledBack(db, write), <<Ran(query, FALSE, FALSE)>>) :
                 write \in {sqlite_execute(db, query)}})

\* SQLExecutorService.execute_query (the definition the class ends up
\* with): the result, the file afterwards, and what the driver was handed.
execute_query(db, query, page, page_size, allow_dangerous) ==
    TheValue({Validated(db, query, page, page_size, allow_dangerous, v) :
                 v \in {validate_query(query)}})

\* The parameters execute_query is defined with, and their defaults.
execute_query_parameters == {"query", "params", "page", "page_size", "allow_dangerous"}

DefaultPageSize == 50

\* A call of execute_query with keyword arguments: a keyword that is not a
\* parameter raises TypeError before the body runs.
CallExecuteQuery(db, kwargs) ==
    IF \E k \in DOMAIN kwargs : k \notin execute_query_parameters
    THEN [raised |-> TRUE,
          message |-> <<"execute_query() got an unexpected keyword argument ",
                        CHOOSE k \in DOMAIN kwargs : k \notin execute_query_parameters>>,
          answer |-> Answer(EmptyDict, db, <<>>)]
    ELSE [raised |-> FALSE, message |-> <<>>,
          answer |-> execute_query(db, kwargs["query"], Get(kwargs, "page", 1),
                                   Get(kwargs, "page_size", DefaultPageSize),
                                   Get(kwargs, "allow_dangerous", FALSE))]

\* The literal parts of the error texts in which the endpoint finds one of
\* the words 'blocked', 'dangerous', 'security' (lower-cased).
SecurityTexts ==
    {"Dangerous operation blocked: ", "Dangerous command: ",
     "Potentially dangerous pattern detected: "}

MentionsSecurity(error) == \E i \in 1..Len(error) : error[i] \in SecurityTexts

DefaultPerPage == 100

\* query.upper().startswith(('SELECT', 'SHOW', ...)) on the stripped text.
StartsWithReadCommand(query) ==
    query # <<>> /\ UpperToken(query[1]) \in read_only_commands

\* The endpoint POST /api/admin/sql: the HTTP status, the body, the file.
execute_sql(db, data) ==
    IF "query" \notin DOMAIN data
    THEN [status |-> 400, body |-> ("error" :> <<"SQL query required">>),
          database |-> db, statements |-> <<>>]
    ELSE
      LET query == Strip(data["query"])
          allow_dangerous == IF StartsWithReadCommand(query) THEN TRUE
                             ELSE Get(data, "allow_dangerous", FALSE)
          call == CallExecuteQuery(db,
                     ("query" :> query) @@ ("page" :> Get(data, "page", 1)) @@
                     ("per_page" :> Get(data, "per_page", DefaultPerPage)) @@
                     ("allow_dangerous" :> allow_dangerous))
          result == call.answer.result
      IN  IF call.raised
          THEN [status |-> 500,
                body |-> ("success" :> FALSE) @@
                         ("error" :> <<"SQL execution failed: ">> \o call.message) @@
                         ("suggestion" :>
                            <<"Check query syntax and database connection">>),
                database |-> call.answer.database,
                statements |-> call.answer.statements]
          ELSE IF ~Get(result, "success", FALSE)
          THEN IF MentionsSecurity(Get(result, "error", <<"Unknown error">>))
               THEN [status |-> 403,
                     body |-> ("success" :> FALSE) @@
                              ("error" :> Get(result, "error", <<"Unknown error">>)) @@
                              ("suggestion" :>
                                 <<"Try setting allow_dangerous=true for write operations">>) @@
                              ("query_analysis" :> Get(result, "analysis", EmptyDict)) @@
                              ("warnings" :> Get(result, "warnings", <<>>)),
                     database |-> call.answer.database,
                     statements |-> call.answer.statements]
               ELSE [status |-> 400, body |-> result,
                     database |-> call.answer.database,
                     statements |-> call.answer.statements]
          ELSE [status |-> 200, body |-> result,
                database |-> call.answer.database,
                statements |-> call.answer.statements]

(* ------------------------------------------------------------------ *)
(* SQL gateway: the calls                                               *)
(* ------------------------------------------------------------------ *)

MaxSqlCalls == 2

MaxPage == 2

MaxPageSize == 2

Pages == 1..MaxPage

PageSizes == 0..MaxPageSize

\* The database file before the first call: one table t with four rows.
InitialDatabase == ("t" :> <<[x |-> 1], [x |-> 2], [x |-> 3], [x |-> 4]>>)

\* A text written as words: one blank between two words, none before a
\* semicolon.
RECURSIVE Spaced(_)
Spaced(words) ==
    IF Len(words) <= 1 THEN words
    ELSE IF words[2] = ";" THEN <<words[1]>> \o Spaced(Tail(words))
    ELSE <<words[1], " ">> \o Spaced(Tail(words))

SelectAll == <<"SELECT", "*", "FROM", "t">>

DropTable == <<"DROP", "TABLE", "t">>

InsertRow == <<"INSERT", "INTO", "t", "VALUES", "(", "9", ")">>

\* The query texts the gateway is called with.
ReadQueries ==
    {Spaced(SelectAll),
     Spaced(<<"select", "*", "from", "t">>),
     Spaced(SelectAll \o <<";">>),
     Spaced(SelectAll \o <<"LIMIT", "3">>),
     Spaced(SelectAll \o <<"LIMIT", "1", "OFFSET", "1">>),
     Spaced(SelectAll \o <<"WHERE", "x", "=", "1">>),
     Spaced(SelectAll \o <<"WHERE", "x", "=", "1", "OR", "1=1">>),
     Spaced(SelectAll \o <<"WHERE", "x", "=", "1", "AND", "1=1">>),
     Spaced(<<"SELECT", "*", "FROM", "u">>),
     Spaced(SelectAll \o <<"--">>),
     Spaced(SelectAll \o <<"--", "note">>),
     Spaced(SelectAll \o <<"/*", "note", "*/">>),
     Spaced(SelectAll \o <<"UNION", "SELECT", "*", "FROM", "t">>),
     Spaced(<<"PRAGMA", "note">>)}

StackedQueries ==
    {Spaced(SelectAll \o <<";">> \o DropTable \o <<";">>),
     Spaced(SelectAll \o <<";">> \o SelectAll),
     Spaced(SelectAll \o <<";">> \o <<"DELETE", "FROM", "t">>),
     Spaced(InsertRow \o <<";">> \o InsertRow),
     Spaced(InsertRow \o <<";">> \o <<"UPDATE", "t", "SET", "x", "=", "9">>),
     Spaced(InsertRow \o <<";">> \o DropTable),
     Spaced(InsertRow \o <<"--", ";", "note">>)}

ChangeQueries ==
    {Spaced(InsertRow),
     Spaced(InsertRow \o <<";">>),
     Spaced(<<"UPDATE", "t", "SET", "x", "=", "9", "WHERE", "x", "=", "1">>),
     Spaced(<<"DELETE", "FROM", "t">>),
     Spaced(<<"DELETE", "FROM", "t", "WHERE", "x", "=", "1">>),
     Spaced(DropTable),
     Spaced(<<"drop", "table", "t">>),
     Spaced(DropTable \o <<";">>),
     <<"\n">> \o Spaced(DropTable),
     <<"--", " ", "note", "\n">> \o Spaced(DropTable),
     Spaced(<<"DROP", "TABLE", "u">>),
     Spaced(<<"TRUNCATE", "TABLE", "t">>),
     Spaced(<<"ALTER", "TABLE", "t", "RENAME", "TO", "u">>),
     Spaced(<<"CREATE", "TABLE", "u", "(", "x", ")">>)}

OtherQueries ==
    {<<>>, <<" ">>,
     Spaced(<<"EXEC", "(", "note", ")">>),
     Spaced(<<"XP_CMDSHELL", "note">>),
     Spaced(<<"SP_HELP", "t">>),
     Spaced(<<"VACUUM">>)}

Queries == ReadQueries \cup StackedQueries \cup ChangeQueries \cup OtherQueries

\* The JSON bodies the endpoint is posted: with or without 'query' and
\* 'allow_dangerous' (page and per_page are left to their defaults).
RequestBodies ==
    {EmptyDict} \cup
    {("query" :> q) : q \in Queries} \cup
    {("query" :> q) @@ ("allow_dangerous" :> b) : q \in Queries, b \in BOOLEAN}

InitSql ==
    /\ CoordInit
    /\ llm_client = TRUE
    /\ AgentIdle
    /\ ToolIdle
    /\ WorkflowIdle
    /\ database = InitialDatabase
    /\ sql_call = EmptyDict
    /\ sql_result = EmptyDict
    /\ sql_log = <<>>
    /\ connections = <<>>

\* Variant: get_connection without its finally clause, the connection is
\* closed only when the with-block is left normally.
get_connection_without_finally(call, raised) ==
    [call |-> call, rolled_back |-> raised, closed |-> ~raised]

\* get_connection, as the with-block of one call uses it: sqlite3.connect,
\* then the block; an exception in the block is answered with
\* conn.rollback() and raised again; conn.close() in the finally clause.
get_connection(call, raised) ==
    [call |-> call, rolled_back |-> raised, closed |-> TRUE]

\* The connections a call of execute_query opens: none when it returns
\* before its try block (the driver is then handed nothing), else one.
Connections(call, succeeded, statements) ==
    IF statements = <<>> THEN <<>>
    ELSE <<get_connection(call, ~succeeded)>>

\* A caller of the service calls execute_query.
ExecuteQuery ==
    /\ Get(sql_call, "number", 0) < MaxSqlCalls
    /\ \E query \in Queries, page \in Pages, page_size \in PageSizes,
          allow_dangerous \in BOOLEAN :
          /\ sql_call' = [number |-> Get(sql_call, "number", 0) + 1,
                          via |-> "execute_query", query |-> query, page |-> page,
                          page_size |-> page_size,
                          allow_dangerous |-> allow_dangerous,
                          before |-> database]
          /\ \E answer \in {execute_query(database, query, page, page_size,
                                          allow_dangerous)} :
                /\ sql_result' = answer.result
                /\ database' = answer.database
                /\ sql_log' = answer.statements
                /\ connections' = connections \o
                      Connections(Get(sql_call, "number", 0) + 1,
                                  answer.result["success"], answer.statements)
    /\ UNCHANGED <<coordVars, llm_client, agentVars, toolVars, workflowVars>>

\* The statements before which the driver opens a transaction; every other
\* statement is committed by the driver as it runs, and conn.commit() then has
\* nothing to do.
OpensTransaction(query) ==
    FirstWord(Upper(Strip(query))) \in {<<"INSERT">>, <<"UPDATE">>, <<"DELETE">>, <<"REPLACE">>}

\* A call of execute_query whose statement goes to the write branch and
\* runs, and whose conn.commit() raises.
ExecuteQueryCommitRaises ==
    /\ Get(sql_call, "number", 0) < MaxSqlCalls
    /\ \E query \in Queries, allow_dangerous \in BOOLEAN :
          \E v \in {validate_query(query)} :
             /\ v.is_valid
             /\ v.command_type # "READ"
             /\ OpensTransaction(query)
             /\ ~sqlite_execute(database, query).raised
             /\ sql_call' = [number |-> Get(sql_call, "number", 0) + 1,
                             via |-> "execute_query", query |-> query, page |-> 1,
                             page_size |-> 1,
                             allow_dangerous |-> allow_dangerous,
                             before |-> database]
             /\ \E answer \in {CommitRaises(database, query, v.command_type)} :
                   /\ sql_result' = answer.result
                   /\ database' = answer.database
                   /\ sql_log' = answer.statements
                   /\ connections' = connections \o
                         Connections(Get(sql_call, "number", 0) + 1,
                                     answer.result["success"], answer.statements)
    /\ UNCHANGED <<coordVars, llm_client, agentVars, toolVars, workflowVars>>

\* An admin posts to /api/admin/sql.
ExecuteSql ==
    /\ Get(sql_call, "number", 0) < MaxSqlCalls
    /\ \E data \in RequestBodies :
          /\ sql_call' = [number |-> Get(sql_call, "number", 0) + 1,
                          via |-> "execute_sql", data |-> data,
                          before |-> database]
          /\ \E answer \in {execute_sql(database, data)} :
                /\ sql_result' = [status |-> answer.status, body |-> answer.body]
                /\ database' = answer.database
                /\ sql_log' = answer.statements
                /\ connections' = connections \o
                      Connections(Get(sql_call, "number", 0) + 1,
                                  answer.status = 200, answer.statements)
    /\ UNCHANGED <<coordVars, llm_client, agentVars, toolVars, workflowVars>>

NextSql == ExecuteQuery \/ ExecuteQueryCommitRaises \/ ExecuteSql

SpecSql == InitSql /\ [][NextSql]_vars

\* The last call was a call of execute_query (of the endpoint).
ServiceCalled == sql_call # EmptyDict /\ sql_call.via = "execute_query"

EndpointCalled == sql_call # EmptyDict /\ sql_call.via = "execute_sql"

\* The gateway refused the call: it reports a failure and the driver ran
\* no statement of the text to completion.
Refused ==
    /\ ~sql_result["success"]
    /\ \A i \in 1..Len(sql_log) : sql_log[i].raised

\* The driver ran some text of the call to completion.
Executed == \E i \in 1..Len(sql_log) : ~sql_log[i].raised

(* ------------------------------------------------------------------ *)
(* SQL gateway: properties                                              *)
(* ------------------------------------------------------------------ *)

\* The text holds a semicolon that is followed by text other than
\* whitespace.
IsMultiStatementText(query) ==
    \E i \in Positions(query, ";") :
       \E j \in (i + 1)..Len(query) : query[j] \notin Whitespace

\* C14 (as stated): a call of execute_query with a text that holds a
\* semicolon followed by further non-whitespace text is refused, whatever
\* allow_dangerous is: the result is a failure, the driver ran none of the
\* text, and the database is as it was.
C14_MultiStatementRefused ==
    (ServiceCalled /\ IsMultiStatementText(sql_call.query))
       => /\ Refused
          /\ ~Executed
          /\ database = sql_call.before

\* The first word of the text of the call, in upper case.
FirstKeyword == FirstWord(Upper(Strip(sql_call.query)))

\* C15 (as stated): a call of execute_query with allow_dangerous=False and a
\* text whose first keyword is DROP, TRUNCATE, DELETE or ALTER is refused,
\* the error names that keyword, and the database is as it was.
C15_DangerousRefusedWithKeyword ==
    (/\ ServiceCalled
     /\ ~sql_call.allow_dangerous
     /\ Len(FirstKeyword) = 1
     /\ FirstKeyword[1] \in dangerous_commands)
       => /\ Refused
          /\ ~Executed
          /\ Contains(sql_result["error"], FirstKeyword[1])
          /\ database = sql_call.before

\* The call is DROP TABLE t on a database that has the table t.
DropsExistingTable ==
    /\ ServiceCalled
    /\ SqlTokens(sql_call.query) \in {<<"DROP", "TABLE", "T">>,
                                      <<"DROP", "TABLE", "T", ";">>}
    /\ "t" \in DOMAIN sql_call.before

\* C16 (as stated): DROP TABLE t on an existing table is refused with
\* allow_dangerous=False; with allow_dangerous=True it is executed and
\* committed, the call succeeds and the table is gone.
C16_DropTableNeedsAllowDangerous ==
    DropsExistingTable
       => IF sql_call.allow_dangerous
          THEN /\ sql_result["success"]
               /\ \E i \in 1..Len(sql_log) : sql_log[i].committed
               /\ "t" \notin DOMAIN database
          ELSE /\ Refused
               /\ database = sql_call.before

\* The text ends in a line comment: a -- with no line break after it.
EndsInLineComment(query) ==
    \E i \in Positions(query, "--") : OneLine(query, i + 1, Len(query))

\* The text holds OR 1=1 or AND 1=1.
HasTautology(query) ==
    \E i \in Positions(Upper(query), "OR") \cup Positions(Upper(query), "AND") :
       \E j \in Positions(query, "1=1") :
          i + 1 < j /\ AllIn(query, i + 1, j - 1, Whitespace)

\* The text holds one of the marks the risk table elevates to CRITICAL.
HasInjectionMark(query) ==
    \/ IsMultiStatementText(query)
    \/ EndsInLineComment(query)
    \/ BlockComment(query)
    \/ UnionSelect(Upper(query))
    \/ HasTautology(query)

\* C17 (as stated): a text with a second statement after a semicolon, a
\* trailing line comment, a block comment, UNION ... SELECT or a tautology
\* is classified CRITICAL, and a call of execute_query with a CRITICAL text
\* is refused and nothing of it runs, whatever allow_dangerous is.
C17_CriticalClassifiedAndRefused ==
    ServiceCalled
       => /\ HasInjectionMark(sql_call.query)
                => analyze_query(sql_call.query).estimated_risk = "CRITICAL"
          /\ analyze_query(sql_call.query).estimated_risk = "CRITICAL"
                => /\ Refused
                   /\ ~Executed
                   /\ database = sql_call.before

\* The result of the call's query for another page, on the database as it
\* is now.
PageResult(page) ==
    execute_query(database, sql_call.query, page, sql_call.page_size,
                  sql_call.allow_dangerous).result

\* The rows of pages first..last, one page after the other.
RECURSIVE PagesFrom(_, _)
PagesFrom(first, last) ==
    IF first > last THEN <<>>
    ELSE PageResult(first)["data"] \o PagesFrom(first + 1, last)

\* The call's query fetched without pagination: handed to the driver as it
\* is.
Unpaginated == sqlite_execute(database, sql_call.query)

\* The last call asked for a page, of one row at least, of a SELECT that
\* passes validation and that the database answers when it is run as it is.
PagedSelect ==
    /\ ServiceCalled
    /\ sql_call.page_size >= 1
    /\ StartsWithSelect(sql_call.query)
    /\ validate_query(sql_call.query).is_valid
    /\ ~Unpaginated.raised

Values(rows) == {rows[i] : i \in 1..Len(rows)}

\* C18 (as stated): for a SELECT over an unchanged table and a page size of
\* 1 or more, every page is answered, the pages 1..total_pages one after
\* the other are the rows of the query fetched without pagination, and
\* pages 1 and 2 share no row (the rows of the table being distinct); also
\* for a query that has its own LIMIT/OFFSET.
C18_PagesPartitionTheRows ==
    PagedSelect
       => /\ PageResult(1)["success"]
          /\ \A p \in 1..PageResult(1)["total_pages"] : PageResult(p)["success"]
          /\ PagesFrom(1, PageResult(1)["total_pages"]) = Unpaginated.rows
          /\ Cardinality(Values(Unpaginated.rows)) = Len(Unpaginated.rows)
                => Values(PageResult(1)["data"]) \cap Values(PageResult(2)["data"]) = {}

\* The last call asked for a page of a SELECT that has its own LIMIT clause.
PagedSelectWithLimit ==
    PagedSelect /\ Contains(Upper(sql_call.query), "LIMIT")

\* C19 (as stated): for a SELECT that has a LIMIT clause of its own, the
\* query the gateway runs has one LIMIT clause, that of the page, and the
\* call succeeds with columns and with at most page_size rows.
C19_ExistingLimitReplaced ==
    PagedSelectWithLimit
       => /\ sql_result["success"]
          /\ "columns" \in DOMAIN sql_result
          /\ Len(sql_result["data"]) <= sql_call.page_size
          /\ Cardinality(Positions(Upper(sql_log[Len(sql_log)].statement), "LIMIT")) = 1

\* The last request carries a DROP TABLE statement and does not set
\* allow_dangerous.
DropTableRequest ==
    /\ EndpointCalled
    /\ "query" \in DOMAIN sql_call.data
    /\ Len(SqlTokens(sql_call.data["query"])) >= 2
    /\ SubSeq(SqlTokens(sql_call.data["query"]), 1, 2) = <<"DROP", "TABLE">>
    /\ ~Get(sql_call.data, "allow_dangerous", FALSE)

\* C20 (as stated): a request with a DROP TABLE statement and without
\* allow_dangerous is answered 403 with the refusal in the body (not 400,
\* the answer to an SQL error, nor 500, the answer to an internal failure),
\* and the database is as it was.
C20_DropTableAnswered403 ==
    DropTableRequest
       => /\ sql_result.status = 403
          /\ ~sql_result.body["success"]
          /\ MentionsSecurity(sql_result.body["error"])
          /\ database = sql_call.before

(* ------------------------------------------------------------------ *)
(* Cost ledger: CostService (checked under Spec)                        *)
(* ------------------------------------------------------------------ *)

\* round(x, 2) on an amount in millionths: to the nearest multiple of 10000.
Round2(x) == ((x + 5000) \div 10000) * 10000

\* func.sum(Cost.amount) over the rows of a user; None when there is no row.
RECURSIVE SumAmount(_, _)
SumAmount(rows, user_id) ==
    IF rows = <<>> THEN 0
    ELSE (IF Head(rows).user_id = user_id THEN Head(rows).amount ELSE 0)
         + SumAmount(Tail(rows), user_id)

\* CostService.get_user_total_cost: round(total or 0.0, 2).
get_user_total_cost(rows, user_id) == Round2(SumAmount(rows, user_id))

\* The agent executions of a user whose background task ran the agent at a
\* cost above 0 and returned without an exception.
PaidExecutions(user_id) ==
    {id \in DOMAIN executions :
        /\ executions[id].created_by = user_id
        /\ executions[id].execution_type = "agent"
        /\ task_log[id].returned
        /\ task_log[id].exc = "None"
        /\ Get(task_log[id].result, "total_cost", 0) > 0}

RECURSIVE SumRunCost(_)
SumRunCost(ids) ==
    IF ids = {} THEN 0
    ELSE LET id == CHOOSE i \in ids : TRUE
         IN  Get(task_log[id].result, "total_cost", 0) + SumRunCost(ids \ {id})

Users == {UserOf(r) : r \in Requests}

\* Every submitted request has been served and every task has returned.
AllReturned ==
    /\ \A r \in Requests : requests[r].pc = "done"
    /\ \A id \in DOMAIN task_log : task_log[id].returned

\* C21 (as stated): once the N agent executions of a user that cost c each
\* have run, what get_user_total_cost reports for the user is N*c, within
\* five decimal places (less than 10 millionths apart).
C21_TotalCostIsSumOfRuns ==
    AllReturned
       => \A u \in Users :
             /\ get_user_total_cost(costs, u) - SumRunCost(PaidExecutions(u))
                   < 10
             /\ SumRunCost(PaidExecutions(u)) - get_user_total_cost(costs, u)
                   < 10

\* The last call handed execute_query a statement that validation accepts
\* as a write or as DDL.
AcceptedWrite ==
    /\ ServiceCalled
    /\ validate_query(sql_call.query).is_valid
    /\ validate_query(sql_call.query).command_type \in {"WRITE", "DDL"}

\* What the driver makes of the call's statement on the database as it was
\* before the call.
StatementEffect == sqlite_execute(sql_call.before, sql_call.query)

\* C22: an accepted write or DDL statement is handed to the driver once; when
\* the call succeeds the statement's effect is in the database, committed,
\* and its row count is returned; when the statement or the commit raises,
\* the call returns an error, nothing is committed and the database is
\* exactly as it was before the call.
C22_WriteIsOneTransaction ==
    AcceptedWrite
       => /\ Len(sql_log) = 1
          /\ sql_log[1].statement = sql_call.query
          /\ IF sql_result["success"]
             THEN /\ ~StatementEffect.raised
                  /\ sql_log[1].committed
                  /\ database = StatementEffect.database
                  /\ sql_result["rows_affected"] = StatementEffect.rowcount
             ELSE /\ "error" \in DOMAIN sql_result
                  /\ ~sql_log[1].committed
                  /\ database = sql_call.before

\* A statement changed rows in its transaction and the commit raised, after
\* an earlier call had committed a change.
C22_Witness ==
    /\ AcceptedWrite
    /\ ~sql_result["success"]
    /\ ~StatementEffect.raised
    /\ StatementEffect.database # sql_call.before
    /\ database # InitialDatabase

\* The connections opened by the call numbered n.
ConnectionsOfCall(n) == {i \in 1..Len(connections) : connections[i].call = n}

BusyWorkers == {w \in Workers : workers[w].pc # "idle"}

\* The executions whose background task a pool thread is running.
RunningTasks == {workers[w].execution_id : w \in BusyWorkers}

\* The executions whose work item waits in the pool's queue.
Backlog == {work_queue[i].execution_id : i \in 1..Len(work_queue)}

\* Every pool thread is inside a background task.
Saturated == BusyWorkers = Workers

\* C24: at most MAX_CONCURRENT_EXECUTIONS background tasks are being run at
\* any moment, each by one pool thread; executor.submit and the return of the
\* id are never blocked, whatever the pool threads are doing; a request that
\* committed its row is answered 202 with the id; and an execution whose
\* work item is in the backlog is pending, untouched by any pool thread.
C24_PoolBoundAndBacklog ==
    /\ Cardinality(RunningTasks) <= MAX_CONCURRENT_EXECUTIONS
    /\ Cardinality(BusyWorkers) = Cardinality(RunningTasks)
    /\ \A r \in Requests :
          /\ requests[r].pc = "committed" => ENABLED PoolSubmit(r)
          /\ requests[r].pc = "submitted" => ENABLED RegisterFuture(r)
          /\ (requests[r].pc = "done" /\ requests[r].execution_id # 0)
                => requests[r].response = 202
    /\ \A id \in Backlog :
          /\ id \notin RunningTasks
          /\ executions[id].status = "pending"
          /\ ~task_log[id].loaded

\* Every pool thread is busy, and a submission made meanwhile was answered
\* 202 while its execution waits, pending, in the backlog.
C24_Witness ==
    /\ Saturated
    /\ \E r \in Requests :
          /\ requests[r].pc = "done"
          /\ requests[r].response = 202
          /\ requests[r].execution_id \in Backlog
          /\ executions[requests[r].execution_id].status = "pending"

\* The background task of the execution has returned: nothing will write to
\* its row any more.
TaskReturned(id) == task_log[id].returned

\* C25 (as stated, in the form a finite check decides): every submitted
\* execution eventually reaches completed or failed. The only writer of an
\* execution's row is its background task, which runs once; so the claim
\* holds exactly when, by the time that task has returned, the persisted
\* status is completed or failed.
C25_EveryExecutionTerminates ==
    \A id \in DOMAIN executions :
       TaskReturned(id) => executions[id].status \in {"completed", "failed"}

(* ------------------------------------------------------------------ *)
(* Persisted steps and costs: properties                                *)
(* ------------------------------------------------------------------ *)

\* The rows of execution_steps of one execution, in insertion order.
PersistedSteps(id) ==
    LET OfExecution(row) == row.execution_id = id
    IN  SelectSeq(execution_steps, OfExecution)

\* The steps the runner of the execution returned, in the order of its list.
ReportedSteps(id) == Get(task_log[id].result, "steps", <<>>)

\* The type the runner gave the step: 'type' of an agent step, 'node_type'
\* of a workflow step.
ReportedType(id, i) ==
    IF executions[id].execution_type = "agent"
    THEN Get(ReportedSteps(id)[i], "type", "unknown")
    ELSE Get(ReportedSteps(id)[i], "node_type", "unknown")

\* C26: the persisted steps of an execution are numbered 1, 2, ..., k in
\* insertion order, the i-th of them is the i-th step the runner reported
\* (same type, same outcome), there are never more rows than reported steps,
\* and the runner and the writes belong to one background task run by one
\* pool thread.
C26_StepsInRunnerOrder ==
    \A id \in DOMAIN executions :
       /\ Len(PersistedSteps(id)) \in {0, Len(ReportedSteps(id))}
       /\ \A i \in 1..Len(PersistedSteps(id)) :
             /\ PersistedSteps(id)[i].step_order = i
             /\ PersistedSteps(id)[i].step_type = ReportedType(id, i)
             /\ PersistedSteps(id)[i].status =
                   (IF Get(ReportedSteps(id)[i], "success", FALSE)
                    THEN "completed" ELSE "failed")
       /\ task_log[id].runner_calls <= 1
       /\ Cardinality(task_log[id].runner_threads) <= 1

\* Two executions have persisted steps, one of them three or more of
\* differing types.
C26_Witness ==
    /\ \E id \in DOMAIN executions :
          /\ Len(PersistedSteps(id)) >= 3
          /\ PersistedSteps(id)[1].step_type # PersistedSteps(id)[2].step_type
          /\ PersistedSteps(id)[3].step_order = 3
    /\ \E id1, id2 \in DOMAIN executions :
          /\ id1 # id2
          /\ PersistedSteps(id1) # <<>>
          /\ PersistedSteps(id2) # <<>>

\* The rows of costs that name the execution.
CostRowsOf(id) == {i \in 1..Len(costs) : costs[i].execution_id = id}

\* The total cost in the result the runner of the execution returned.
RunTotalCost(id) == Get(task_log[id].result, "total_cost", 0)

\* C27 (as stated): an execution never has more than one Cost row, every
\* Cost row names the user who submitted its execution, and once the
\* background task of an execution whose runner returned is over, the
\* execution has one Cost row when the run's total cost is positive and none
\* otherwise.
C27_OneCostRowPerPaidRun ==
    /\ \A i \in 1..Len(costs) :
          /\ costs[i].execution_id \in DOMAIN executions
          /\ costs[i].user_id = executions[costs[i].execution_id].created_by
    /\ \A id \in DOMAIN executions :
          /\ Cardinality(CostRowsOf(id)) <= 1
          /\ (task_log[id].runner_calls = 1 /\ TaskReturned(id))
                => Cardinality(CostRowsOf(id)) = (IF RunTotalCost(id) > 0 THEN 1 ELSE 0)

\* C28 (as stated): an execution whose persisted status is completed or
\* failed has progress 1.0.
C28_TerminalHasFullProgress ==
    \A id \in DOMAIN executions :
       executions[id].status \in {"completed", "failed"} => executions[id].progress = 1

(* ------------------------------------------------------------------ *)
(* Workflow traversal: properties                                       *)
(* ------------------------------------------------------------------ *)

\* The called workflow has no node of type start.
NoStartNode ==
    \A i \in 1..Len(wf_call.workflow.nodes) :
       wf_call.workflow.nodes[i].node_type # "start"

\* C29: a call of execute_workflow for a workflow without a start node
\* returns a failure whose error is the missing start node; no node was
\* executed, no agent was called and no step was recorded on the way, and
\* the returned list of steps is empty.
C29_NoStartNodeFailsFirst ==
    (wf_result # EmptyDict /\ NoStartNode /\ ~GraphRaises(wf_call.workflow))
       => /\ ~wf_result.success
          /\ wf_result.error = "No start node found in workflow"
          /\ wf_result.steps = <<>>
          /\ wf_trace.executed_nodes = {}
          /\ wf_trace.node_outputs = <<>>
          /\ wf_trace.agent_calls = <<>>
          /\ wf_trace.steps = <<>>

\* A workflow made of an agent node and an end node, without a start node,
\* was run and failed.
C29_Witness ==
    /\ wf_result # EmptyDict
    /\ NoStartNode
    /\ \E i \in 1..Len(wf_call.workflow.nodes) :
          wf_call.workflow.nodes[i].node_type = "agent"
    /\ ~wf_result.success
    /\ wf_trace.agent_calls = <<>>

\* How many times the traversal of the call entered the try block of a node.
TimesEntered(node_id) ==
    Cardinality({i \in 1..Len(wf_trace.entered) : wf_trace.entered[i] = node_id})

\* How many times the traversal called execute_agent for a node.
TimesAgentCalled(node_id) ==
    Cardinality({i \in 1..Len(wf_trace.agent_calls) :
                    wf_trace.agent_calls[i].node_id = node_id})

\* Where a node stands in the order of entry.
EntryIndex(node_id) ==
    CHOOSE i \in 1..Len(wf_trace.entered) : wf_trace.entered[i] = node_id

\* C30: every call of execute_workflow returns, whatever the graph; the
\* traversal enters each node at most once, so it enters at most as many
\* nodes as the workflow has, and calls the agent of an agent node at most
\* once.
C30_EachNodeAtMostOnce ==
    /\ wf_result = EmptyDict =>
          \A result \in {execute_workflow(wf_call.workflow, wf_call.input_data,
                                          llm_client, wf_call.script)} :
             result.success \in BOOLEAN
    /\ wf_result # EmptyDict
          => /\ \A n \in NodeIds(wf_call.workflow) :
                   /\ TimesEntered(n) <= 1
                   /\ TimesAgentCalled(n) <= 1
             /\ \A i \in 1..Len(wf_trace.entered) :
                   wf_trace.entered[i] \in NodeIds(wf_call.workflow)
             /\ Len(wf_trace.entered) <= Cardinality(NodeIds(wf_call.workflow))

\* The run of a workflow with a connection that leads back to a node entered
\* before (a cycle or a self-loop) returned, and entered every node once.
C30_Witness ==
    /\ wf_result # EmptyDict
    /\ wf_result.success
    /\ \A n \in NodeIds(wf_call.workflow) : TimesEntered(n) = 1
    /\ \E i \in 1..Len(wf_call.workflow.connections) :
          EntryIndex(wf_call.workflow.connections[i].target_node_id)
             <= EntryIndex(wf_call.workflow.connections[i].source_node_id)

\* The targets of the connections that leave a node of the set.
Successors(wf, S) ==
    {wf.connections[i].target_node_id :
        i \in {j \in 1..Len(wf.connections) : wf.connections[j].source_node_id \in S}}

\* The nodes reachable along connections from a set of nodes.
RECURSIVE ReachableFrom(_, _)
ReachableFrom(wf, S) ==
    IF Successors(wf, S) \subseteq S THEN S
    ELSE ReachableFrom(wf, S \cup Successors(wf, S))

\* The nodes of the called workflow reachable from its start nodes.
Reachable ==
    ReachableFrom(wf_call.workflow,
                  {wf_call.workflow.nodes[i].node_id :
                      i \in {j \in 1..Len(wf_call.workflow.nodes) :
                               wf_call.workflow.nodes[j].node_type = "start"}})

\* C31: in a successful run the executed nodes, and the nodes with a step,
\* are exactly the nodes reachable from the start nodes, and nodes_executed
\* is their number.
C31_ExactlyReachableExecuted ==
    (wf_result # EmptyDict /\ wf_result.success)
       => /\ wf_trace.executed_nodes = Reachable
          /\ {wf_result.steps[i].node_id : i \in 1..Len(wf_result.steps)} = Reachable
          /\ wf_result.nodes_executed = Cardinality(Reachable)

\* A successful run of a workflow some of whose nodes cannot be reached
\* from a start node, and that executed more than one node.
C31_Witness ==
    /\ wf_result # EmptyDict
    /\ wf_result.success
    /\ Reachable # NodeIds(wf_call.workflow)
    /\ wf_result.nodes_executed = Cardinality(Reachable)
    /\ wf_result.nodes_executed >= 2

\* The node was entered by the traversal of the call.
WasEntered(node_id) == TimesEntered(node_id) >= 1

\* The predecessors of a node that had produced their output when the node
\* was entered, in the order of the workflow's nodes.
EarlyPredecessors(node_id) ==
    LET wf == wf_call.workflow
        Early(n) ==
           /\ \E i \in 1..Len(wf.connections) :
                 /\ wf.connections[i].source_node_id = n.node_id
                 /\ wf.connections[i].target_node_id = node_id
           /\ WasEntered(n.node_id)
           /\ EntryIndex(n.node_id) < EntryIndex(node_id)
           /\ HasOutput(wf_trace.node_outputs, n.node_id)
    IN  SelectSeq(wf.nodes, Early)

\* The merge of the outputs of a list of nodes, later ones over earlier ones.
RECURSIVE MergedOutputs(_)
MergedOutputs(sources) ==
    IF sources = <<>> THEN EmptyDict
    ELSE LET last == sources[Len(sources)]
             value == OutputOf(wf_trace.node_outputs, last.node_id)
         IN DictUpdate(MergedOutputs(SubSeq(sources, 1, Len(sources) - 1)),
                       IF IsDict(value) THEN value.dict
                       ELSE (OutputKey[last.node_id] :> value.text))

\* The called workflow is the diamond start -> a, start -> b, a -> end,
\* b -> end.
IsDiamond ==
    /\ [i \in 1..Len(wf_call.workflow.nodes) |-> wf_call.workflow.nodes[i].node_id]
          = <<"s", "a", "b", "e">>
    /\ wf_call.workflow.connections =
          <<Conn("s", "a"), Conn("s", "b"), Conn("a", "e"), Conn("b", "e")>>

\* C32: no node's output is recorded twice; the output of an executed end
\* node, and the input an agent node's agent is called with, is the merge of
\* the outputs of exactly those predecessors that had produced one when
\* the node was entered; in the diamond the end node
\* holds a's output only, although b ran later in the same run.
C32_InputFromEarlyPredecessors ==
    (wf_result # EmptyDict /\ ~GraphRaises(wf_call.workflow))
       => /\ \A i, j \in 1..Len(wf_trace.node_outputs) :
                wf_trace.node_outputs[i].node_id = wf_trace.node_outputs[j].node_id
                   => i = j
          /\ \A n \in NodeIds(wf_call.workflow) :
                (NodeById(wf_call.workflow, n).node_type = "end"
                 /\ HasOutput(wf_trace.node_outputs, n))
                   => OutputOf(wf_trace.node_outputs, n) =
                         Dict(MergedOutputs(EarlyPredecessors(n)))
          /\ \A i \in 1..Len(wf_trace.agent_calls) :
                wf_trace.agent_calls[i].input =
                   MergedOutputs(EarlyPredecessors(wf_trace.agent_calls[i].node_id))
          /\ (IsDiamond /\ wf_result.success)
                => /\ wf_result.output.dict["e"] = Dict([from_a |-> <<"A">>])
                   /\ WasEntered("b")
                   /\ EntryIndex("e") < EntryIndex("b")

\* The diamond was run: b produced its output after the end node was
\* executed, and the end node's output holds a's output only.
C32_Witness ==
    /\ wf_result # EmptyDict
    /\ wf_result.success
    /\ IsDiamond
    /\ HasOutput(wf_trace.node_outputs, "b")
    /\ EntryIndex("e") < EntryIndex("b")
    /\ OutputOf(wf_trace.node_outputs, "e") = Dict([from_a |-> <<"A">>])

\* How many steps of the traversal's trace belong to a node.
StepsOf(node_id) ==
    Cardinality({i \in 1..Len(wf_trace.steps) : wf_trace.steps[i].node_id = node_id})

\* C33 (as stated): every node the traversal executed has exactly one step
\* in the trace, with the node's id and type and, when it failed, the error;
\* a node that was not executed has none.
C33_OneStepPerNode ==
    (wf_result # EmptyDict /\ ~GraphRaises(wf_call.workflow))
       => /\ \A n \in NodeIds(wf_call.workflow) : StepsOf(n) = TimesEntered(n)
          /\ \A i \in 1..Len(wf_trace.steps) :
                /\ wf_trace.steps[i].node_type =
                      NodeById(wf_call.workflow, wf_trace.steps[i].node_id).node_type
                /\ ~wf_trace.steps[i].success => "error" \in DOMAIN wf_trace.steps[i]

\* The node's type is none of those execute_node knows.
IsUnrecognized(node_id) ==
    NodeById(wf_call.workflow, node_id).node_type \notin {"start", "input", "agent", "end"}

\* C34 (as stated): an executed node of an unrecognized type has an output,
\* the merge of the outputs its predecessors had produced, and an end node
\* that follows it alone holds that output.
C34_UnknownTypePassesInputThrough ==
    (wf_result # EmptyDict /\ ~GraphRaises(wf_call.workflow))
       => \A n \in NodeIds(wf_call.workflow) :
             (IsUnrecognized(n) /\ n \in wf_trace.executed_nodes)
                => /\ HasOutput(wf_trace.node_outputs, n)
                   /\ OutputOf(wf_trace.node_outputs, n) =
                         Dict(MergedOutputs(EarlyPredecessors(n)))

\* The end nodes of the called workflow, and those the run executed.
EndNodes ==
    {n \in NodeIds(wf_call.workflow) : NodeById(wf_call.workflow, n).node_type = "end"}

ExecutedEndNodes == EndNodes \cap wf_trace.executed_nodes

\* C35 (as stated): the output of a successful run of a workflow that has an
\* end node is the mapping from each executed end node to its output; the
\* output of a successful run of a workflow without end node is the output
\* produced last.
C35_OutputIsEndNodeOutputs ==
    (wf_result # EmptyDict /\ wf_result.success)
       => IF EndNodes # {}
          THEN wf_result.output =
                  Dict([e \in ExecutedEndNodes |-> OutputOf(wf_trace.node_outputs, e)])
          ELSE wf_trace.node_outputs # <<>>
                  => wf_result.output =
                        wf_trace.node_outputs[Len(wf_trace.node_outputs)].value


(* ------------------------------------------------------------------ *)
(* Properties of tool calls in the ReAct loop                          *)
(* ------------------------------------------------------------------ *)

\* The steps the loop has recorded so far, whether or not it has returned.
LoopSteps == IF loop = EmptyDict THEN <<>> ELSE loop.steps

FailedToolSteps ==
    {i \in 1..Len(LoopSteps) :
        LoopSteps[i].type = "tool_call" /\ ~LoopSteps[i].success}

ToolErrorEntries ==
    {i \in 1..Len(loop.conversation_history) :
        Head(loop.conversation_history[i]) = "Tool Error:"}

\* The number of llm_call steps among the first i steps.
LlmStepsUpTo(i) ==
    Cardinality({j \in 1..i : LoopSteps[j].type = "llm_call"})

\* C36: in the ReAct loop a failed tool invocation is recorded as one failed
\* tool_call step with its error appended to the transcript, and it does not
\* end the run: the loop stands at its head again and makes the next LLM call
\* unless the iterations are used up; each iteration makes exactly one LLM
\* call and at most one tool call, and every tool_call step directly follows
\* the llm_call step of its iteration.
C36_FailedToolCallGoesOn ==
    loop # EmptyDict =>
       /\ Len(StepsOfType(LoopSteps, "llm_call")) = Len(llm_calls)
       /\ Len(StepsOfType(LoopSteps, "tool_call")) = tool_calls
       /\ Cardinality(ToolErrorEntries) = Cardinality(FailedToolSteps)
       /\ \A i \in 1..Len(LoopSteps) :
             /\ LoopSteps[i].type = "llm_call" =>
                   LoopSteps[i].iteration = LlmStepsUpTo(i)
             /\ LoopSteps[i].type = "tool_call" =>
                   /\ i > 1
                   /\ LoopSteps[i - 1].type = "llm_call"
                   /\ LoopSteps[i - 1].success
                   /\ Contains(llm_calls[LlmStepsUpTo(i)].response, "TOOL_CALL:")
             /\ (i \in FailedToolSteps /\ i < Len(LoopSteps)) =>
                   /\ LoopSteps[i + 1].type = "llm_call"
                   /\ LoopSteps[i + 1].iteration = LlmStepsUpTo(i) + 1
       /\ Len(LoopSteps) \in FailedToolSteps =>
             LET last == LoopSteps[Len(LoopSteps)]
                 history == loop.conversation_history
             IN /\ history[Len(history)] = <<"Tool Error:", last.error>>
                /\ loop.ctl = "loop"
                /\ loop.iteration = Len(llm_calls)
                /\ Len(llm_calls) < max_iterations_of(run_agent) =>
                      /\ run_pc = "react"
                      /\ ENABLED ReactLlmCall
                      /\ ~ENABLED ReactReturnAfterLoop
                /\ run_pc = "done" =>
                      /\ Len(llm_calls) = max_iterations_of(run_agent)
                      /\ run_result.steps = LoopSteps

\* A tool that was not found, then a tool that raised, and the run still ends
\* with a final answer in its third iteration.
C36_Witness ==
    /\ run_pc = "done" /\ run_result.success
    /\ Len(LoopSteps) = 5
    /\ FailedToolSteps = {2, 4}
    /\ LoopSteps[2].error = "Tool not found"
    /\ LoopSteps[4].error = "tool raised"
    /\ Len(llm_calls) = 3
    /\ run_result.iterations = 3


(* ------------------------------------------------------------------ *)
(* Visibility of steps and costs: properties                           *)
(* ------------------------------------------------------------------ *)

HasRows(id) == PersistedSteps(id) # <<>> \/ CostRowsOf(id) # {}

\* A commit adds a step row or a Cost row of the execution.
RowsAdded(id) ==
    \/ Len(PersistedSteps(id)') > Len(PersistedSteps(id))
    \/ Cardinality(CostRowsOf(id)') > Cardinality(CostRowsOf(id))

\* C37: an Execution whose persisted status is pending or running has no
\* persisted ExecutionStep and no Cost row; the rows of an execution are
\* added in the very commit that writes its terminal status over a status
\* that was not terminal.
C37_RowsOnlyWithTerminalStatus ==
    /\ [](\A id \in ExecutionIds :
             executions[id].status \in {"pending", "running"} => ~HasRows(id))
    /\ [][\A id \in ExecutionIds :
             RowsAdded(id) =>
                /\ executions[id].status \in {"pending", "running"}
                /\ executions'[id].status \in {"completed", "failed"}]_vars

\* A runner has returned steps and a positive cost for a running execution
\* and nothing of it is persisted yet, while the rows of an earlier,
\* completed execution are.
C37_Witness ==
    \E id \in ExecutionIds, w \in Workers :
       /\ executions[id].status = "running"
       /\ workers[w].pc = "persist" /\ workers[w].execution_id = id
       /\ Get(workers[w].result, "steps", <<>>) # <<>>
       /\ Get(workers[w].result, "total_cost", 0) > 0
       /\ ~HasRows(id)
       /\ \E done \in ExecutionIds :
             /\ executions[done].status = "completed"
             /\ PersistedSteps(done) # <<>>
             /\ CostRowsOf(done) # {}


(* ------------------------------------------------------------------ *)
(* allow_dangerous: properties                                         *)
(* ------------------------------------------------------------------ *)

\* What a call of execute_query answers: the driver ran some text of the
\* call to completion / the call failed and the driver ran none.
AnswerExecuted(answer) ==
    \E i \in 1..Len(answer.statements) : ~answer.statements[i].raised

AnswerRefused(answer) ==
    /\ ~answer.result["success"]
    /\ \A i \in 1..Len(answer.statements) : answer.statements[i].raised

\* The answers of the last call's query, page and page size on the database
\* as it was before the call, without and with allow_dangerous.
StrictAndRelaxed ==
    {<<strict, relaxed>> :
        strict \in {execute_query(sql_call.before, sql_call.query, sql_call.page,
                                  sql_call.page_size, FALSE)},
        relaxed \in {execute_query(sql_call.before, sql_call.query, sql_call.page,
                                   sql_call.page_size, TRUE)}}

\* C38: for every query text and database state, a query that a call with
\* allow_dangerous = false executes is executed by a call with
\* allow_dangerous = true as well, with the same result, the same statements
\* handed to the driver and the same database afterwards; and a query refused
\* with allow_dangerous = true is refused with allow_dangerous = false.
C38_FlagOnlyRelaxes ==
    ServiceCalled =>
       \A pair \in StrictAndRelaxed :
          /\ AnswerExecuted(pair[1]) =>
                /\ AnswerExecuted(pair[2])
                /\ pair[2] = pair[1]
          /\ AnswerRefused(pair[2]) => AnswerRefused(pair[1])

\* A call with allow_dangerous = true has run an INSERT that changed the
\* table, and the same call without the flag answers the same.
C38_Witness ==
    /\ ServiceCalled
    /\ sql_call.allow_dangerous
    /\ FirstWord(Upper(Strip(sql_call.query))) = <<"INSERT">>
    /\ sql_result["success"]
    /\ database # sql_call.before
    /\ \A pair \in StrictAndRelaxed :
          /\ AnswerExecuted(pair[1])
          /\ pair[2].result = sql_result
          /\ pair[2].database = database

====
